---- MODULE Spec2Model ----
(***************************************************************************)
(* Model of the QSAN iSCSI volume driver: the REST client (common.py) and  *)
(* the driver's export orchestration and codec (qsan_iscsi.py).            *)
(***************************************************************************)
EXTENDS Integers, Sequences, FiniteSets, TLC

\* Python's None where a name, a flag or an outcome is expected.
None == "None"
\* Python's None where a string is expected. Strings are sequences of
\* one-character strings, so this value is no string.
NoneS == <<"None">>

\* Largest retry_count a client is constructed with directly.
MaxRetry == 3
\* Largest qsan_retry_count the driver is configured with.
MaxDriverRetry == 2

\* Bearer tokens the array hands out at login.
Tokens == {"tok1", "tok2"}

\* The exceptions one call of requests.Session.request / raise_for_status
\* raises: two connection-level ones and the HTTP status error (4xx/5xx).
ConnectivityErrors == {"ConnectionError", "Timeout"}
TransportErrors == ConnectivityErrors \cup {"HTTPError"}

VARIABLES
    session,        \* QSANClient.session: None or "Session"
    session_token,  \* QSANClient.session_token: None or a token
    retry_count,    \* QSANClient.retry_count
    rpc,            \* position inside _request: "idle", "loop", "sleep", "done"
    caller,         \* who called _request: "direct", "logout", "driver"
    request,        \* the request _request was called with
    attempt,        \* the loop variable of _request
    trace,          \* outcomes of the HTTP attempts issued by the current _request
    sleeps,         \* seconds the current _request has slept, one per time.sleep(1)
    auth,           \* token put in the Authorization header (None: header absent)
    result,         \* how the current _request ended
    response,       \* the parsed body _request returned
    ret,            \* the last client operation that returned, and how
    array           \* what exists on the storage array

cvars == <<session, session_token, retry_count, rpc, caller, request, attempt,
           trace, sleeps, auth, result, response, ret, array>>

VARIABLES
    conf,           \* the driver's configuration (options.py)
    volume,         \* the Cinder volume record: id, provider_location, provider_auth
    cin,            \* codec runs: the IQN and LUN id the array answered with
    cpc,            \* codec runs: "idle", "start", "encoded", "decoded"
    properties      \* codec runs: what _get_iscsi_properties returned

kvars == <<cin, cpc, properties>>

VARIABLES
    ready,          \* do_setup has succeeded
    dpc,            \* position inside the running driver operation, or "idle"
    dop,            \* the driver operation that runs or ran last
    calls,          \* the client methods that operation has called, in order
    target_info,    \* locals of the running operation
    vol_info,       \* vol_info of delete_volume, snap_info of delete_snapshot
    target_id,
    target_iqn,
    lun_id,
    dret,           \* how the last driver operation ended
    stats,          \* self._stats, the stored statistics
    args            \* the arguments of the running operation besides the volume

dvars == <<ready, dpc, dop, calls, target_info, vol_info, target_id, target_iqn,
           lun_id, dret, stats, args>>
vars == <<cvars, conf, volume, kvars, dvars>>

(***************************************************************************)
(* Names                                                                   *)
(***************************************************************************)
\* qsan_iscsi.py:164
GetVolumeName(v) == <<"volume", v.id>>
\* qsan_iscsi.py:180
GetTargetName(v) == <<"target", v.id>>

(***************************************************************************)
(* The storage array, as the REST resources of common.py see it: targets   *)
(* by name, the LUN mappings and CHAP settings of each target.             *)
(***************************************************************************)
EmptyArray ==
    [targets |-> {}, luns |-> {}, chap |-> {}, volumes |-> {}, snapshots |-> {},
     acl |-> {}, pools |-> {}]

\* The id and the IQN the array gives a target it creates.
ArrayTargetId(name) == <<"tid", name[2]>>
ArrayTargetOfId(id) == <<"target", id[2]>>
ArrayIqns == { <<"q", "1">>, <<"q", "2">> }
\* The LUN ids the array assigns; -1 stands for an answer without 'lun_id'.
ArrayLuns == {-1, 0, 1}

EmptyBody == [kind |-> "none"]

\* Python's integers are unbounded and the model checker's are 32 bits wide:
\* byte counts are kept in blocks of 512 bytes, so that units.Gi, 2^30 bytes,
\* is 2^21 blocks, and a decimal gigabyte, 10^9 bytes, is 1953125 blocks.
Gi == 2 ^ 21

\* The capacities, in gigabytes, the array reports for its pool.
PoolCapacitiesGb == { [total |-> 4, free |-> 1], [total |-> 4, free |-> 3] }

\* What the array can answer to a request it processes, with the state it is
\* in afterwards; no answer means it rejects the request with a 4xx status.
ArrayReplies(arr, req) ==
    CASE req.kind \in {"generic", "logout"} ->
            { [body |-> b, arr |-> arr] : b \in {EmptyBody, [kind |-> "json"]} }
      [] req.kind = "create_iscsi_target" ->
            IF req.name \in arr.targets THEN {}
            ELSE { [body |-> [kind |-> "target", id |-> ArrayTargetId(req.name),
                              iqn |-> q],
                    arr |-> [arr EXCEPT !.targets = @ \cup {req.name}]]
                   : q \in ArrayIqns }
      [] req.kind = "get_iscsi_targets" ->
            { [body |-> [kind |-> "list",
                         items |-> IF req.name \in arr.targets
                                   THEN <<[id |-> ArrayTargetId(req.name)]>>
                                   ELSE <<>>],
               arr |-> arr] }
      [] req.kind = "delete_iscsi_target" ->
            IF ArrayTargetOfId(req.target_id) \notin arr.targets THEN {}
            ELSE LET name == ArrayTargetOfId(req.target_id)
                 IN  { [body |-> EmptyBody,
                        arr |-> [arr EXCEPT !.targets = @ \ {name},
                                            !.luns = @ \ {name},
                                            !.chap = @ \ {name}]] }
      [] req.kind = "map_volume_to_target" ->
            IF ArrayTargetOfId(req.target_id) \notin arr.targets THEN {}
            ELSE { [body |-> [kind |-> "mapping", lun_id |-> l],
                    arr |-> [arr EXCEPT !.luns =
                                 @ \cup {ArrayTargetOfId(req.target_id)}]]
                   : l \in ArrayLuns }
      [] req.kind = "set_target_chap" ->
            IF ArrayTargetOfId(req.target_id) \notin arr.targets THEN {}
            ELSE { [body |-> EmptyBody,
                    arr |-> [arr EXCEPT !.chap =
                                 @ \cup {ArrayTargetOfId(req.target_id)}]] }
      [] req.kind = "get_volume" ->
            IF req.name \notin arr.volumes THEN {}
            ELSE { [body |-> [kind |-> "volume", name |-> req.name], arr |-> arr] }
      [] req.kind = "delete_volume" ->
            IF req.name \notin arr.volumes THEN {}
            ELSE { [body |-> EmptyBody,
                    arr |-> [arr EXCEPT !.volumes = @ \ {req.name}]] }
      [] req.kind = "get_snapshot" ->
            IF <<req.volume, req.name>> \notin arr.snapshots THEN {}
            ELSE { [body |-> [kind |-> "snapshot", name |-> req.name], arr |-> arr] }
      [] req.kind = "delete_snapshot" ->
            IF <<req.volume, req.name>> \notin arr.snapshots THEN {}
            ELSE { [body |-> EmptyBody,
                    arr |-> [arr EXCEPT !.snapshots = @ \ {<<req.volume, req.name>>}]] }
      [] req.kind = "add_initiator_to_target" ->
            IF \/ ArrayTargetOfId(req.target_id) \notin arr.targets
               \/ <<ArrayTargetOfId(req.target_id), req.initiator>> \in arr.acl
            THEN {}
            ELSE { [body |-> EmptyBody,
                    arr |-> [arr EXCEPT !.acl = @ \cup
                               {<<ArrayTargetOfId(req.target_id), req.initiator>>}]] }
      [] req.kind = "remove_initiator_from_target" ->
            IF <<ArrayTargetOfId(req.target_id), req.initiator>> \notin arr.acl
            THEN {}
            ELSE { [body |-> EmptyBody,
                    arr |-> [arr EXCEPT !.acl = @ \
                               {<<ArrayTargetOfId(req.target_id), req.initiator>>}]] }
      [] req.kind = "get_pool" ->
            IF req.name \notin arr.pools THEN {}
            ELSE { [body |-> [kind |-> "pool", name |-> req.name,
                              total_capacity |-> c.total * Gi,
                              free_capacity |-> c.free * Gi],
                    arr |-> arr] : c \in PoolCapacitiesGb }
                 \cup { [body |-> EmptyBody, arr |-> arr] }
      [] req.kind = "create_volume" ->
            IF req.pool \notin arr.pools \/ req.name \in arr.volumes THEN {}
            ELSE { [body |-> [kind |-> "volume", name |-> req.name],
                    arr |-> [arr EXCEPT !.volumes = @ \cup {req.name}]] }
      [] req.kind = "extend_volume" ->
            IF req.name \notin arr.volumes THEN {}
            ELSE { [body |-> [kind |-> "volume", name |-> req.name], arr |-> arr] }
      [] req.kind = "create_snapshot" ->
            IF \/ req.volume \notin arr.volumes
               \/ <<req.volume, req.name>> \in arr.snapshots
            THEN {}
            ELSE { [body |-> [kind |-> "snapshot", name |-> req.name],
                    arr |-> [arr EXCEPT !.snapshots = @ \cup
                                            {<<req.volume, req.name>>}]] }
      [] req.kind = "clone_volume" ->
            IF req.src \notin arr.volumes \/ req.name \in arr.volumes THEN {}
            ELSE { [body |-> [kind |-> "volume", name |-> req.name],
                    arr |-> [arr EXCEPT !.volumes = @ \cup {req.name}]] }
      [] req.kind = "create_volume_from_snapshot" ->
            IF \/ <<req.volume, req.snapshot>> \notin arr.snapshots
               \/ req.name \in arr.volumes
            THEN {}
            ELSE { [body |-> [kind |-> "volume", name |-> req.name],
                    arr |-> [arr EXCEPT !.volumes = @ \cup {req.name}]] }

(***************************************************************************)
(* QSANClient._request                                                     *)
(***************************************************************************)

\* common.py:150 with the test never true: no failure is retried.
ShouldRetryNever(att, n) == FALSE

\* common.py:150: a failed attempt is retried unless it is the last one.
ShouldRetry(att, n) == att < n - 1

\* common.py:146-148 with the body dropped.
ResponseResultDropBody(body) == "empty"

\* common.py:146-148: the parsed JSON of a non-empty body, None otherwise.
ResponseResult(body) == IF body # EmptyBody THEN "parsed" ELSE "empty"

\* common.py:132-133 with the header never added.
AuthorizationHeaderAbsent(tok) == None

\* common.py:132-133: the Authorization header carries the token when the
\* token is truthy, and is absent otherwise.
AuthorizationHeader(tok) == IF tok \in {None, ""} THEN None ELSE tok

\* common.py:129-133: the headers are built once, before the loop.
RequestBegin(c, req) ==
    /\ rpc' = "loop"
    /\ caller' = c
    /\ request' = req
    /\ attempt' = 0
    /\ trace' = <<>>
    /\ sleeps' = 0
    /\ result' = None
    /\ response' = EmptyBody
    /\ auth' = AuthorizationHeader(session_token)

\* common.py:135: range(retry_count) is exhausted without a return or raise
\* (only when retry_count <= 0): the function falls off its end, returning None.
RequestLoopExhausted ==
    /\ rpc = "loop"
    /\ attempt >= retry_count
    /\ rpc' = "done"
    /\ result' = "empty"
    /\ UNCHANGED <<session, session_token, retry_count, caller, request, attempt,
                   trace, sleeps, auth, response, ret, array>>

\* common.py:137: self.session is None, so self.session.request raises
\* AttributeError, which the except clause of line 149 does not catch.
RequestNoSession ==
    /\ rpc = "loop"
    /\ attempt < retry_count
    /\ session = None
    /\ rpc' = "done"
    /\ result' = "AttributeError"
    /\ UNCHANGED <<session, session_token, retry_count, caller, request, attempt,
                   trace, sleeps, auth, response, ret, array>>

\* common.py:136-148: one HTTP attempt that ends in a 2xx response.
RequestAttemptOk ==
    /\ rpc = "loop"
    /\ attempt < retry_count
    /\ session # None
    /\ \E reply \in ArrayReplies(array, request) :
          /\ array' = reply.arr
          /\ trace' = Append(trace, IF reply.body = EmptyBody
                                    THEN "ok_empty" ELSE "ok_body")
          /\ result' = ResponseResult(reply.body)
          /\ response' = reply.body
    /\ rpc' = "done"
    /\ UNCHANGED <<session, session_token, retry_count, caller, request, attempt,
                   sleeps, auth, ret>>

\* common.py:149-156: one HTTP attempt that raises a RequestException:
\* ConnectionError, Timeout, or the HTTPError of raise_for_status. A request
\* that timed out may have been processed by the array all the same.
RequestAttemptFail ==
    /\ rpc = "loop"
    /\ attempt < retry_count
    /\ session # None
    /\ \E r \in TransportErrors :
          /\ trace' = Append(trace, r)
          /\ \/ array' = array
             \/ /\ r = "Timeout"
                /\ \E reply \in ArrayReplies(array, request) : array' = reply.arr
    /\ IF ShouldRetry(attempt, retry_count)
          THEN rpc' = "sleep" /\ result' = result
          ELSE rpc' = "done" /\ result' = "QSANApiException"
    /\ UNCHANGED <<session, session_token, retry_count, caller, request, attempt,
                   sleeps, auth, response, ret>>

\* common.py:152 with a delay that doubles at every retry.
BackoffDoubling(att) == 2 ^ att

\* common.py:152: the seconds slept after failed attempt number att (from 0).
Backoff(att) == 1

\* common.py:135 with the loop variable left as it is.
NextAttemptSame(att) == att

\* common.py:135: range() hands out the next attempt number.
NextAttempt(att) == att + 1

\* common.py:152-153: time.sleep(1); continue.
RequestSleep ==
    /\ rpc = "sleep"
    /\ sleeps' = sleeps + Backoff(attempt)
    /\ attempt' = NextAttempt(attempt)
    /\ rpc' = "loop"
    /\ UNCHANGED <<session, session_token, retry_count, caller, request, trace,
                   auth, result, response, ret, array>>

\* A direct call of _request (as the unit tests make it) and its return.
CallRequest ==
    /\ rpc = "idle"
    /\ RequestBegin("direct", [kind |-> "generic"])
    /\ UNCHANGED <<session, session_token, retry_count, ret, array>>

ReturnRequest ==
    /\ rpc = "done"
    /\ caller = "direct"
    /\ rpc' = "idle"
    /\ ret' = [op |-> "_request", outcome |-> result]
    /\ UNCHANGED <<session, session_token, retry_count, caller, request, attempt,
                   trace, sleeps, auth, result, response, array>>

(***************************************************************************)
(* QSANClient.login / logout                                               *)
(***************************************************************************)

\* common.py:87-91 with the POST repeated retry_count times.
LoginPostsRetried(r, n) == [i \in 1..n |-> r]

\* common.py:87-91: the HTTP requests one login issues: one session.post,
\* outside any loop, whatever retry_count is.
LoginPosts(r, n) == <<r>>

\* common.py:78-79: the session is created when there is none.
\* common.py:87-97: one POST, not retried; result.get('token') is None when
\* the response carries no token.
LoginOk ==
    /\ rpc = "idle"
    /\ session' = "Session"
    /\ \E t \in Tokens \cup {None} :
          /\ session_token' = t
          /\ ret' = [op |-> "login", outcome |-> "ok",
                     posts |-> LoginPosts("ok", retry_count), token |-> t]
    /\ UNCHANGED <<retry_count, rpc, caller, request, attempt, trace, sleeps,
                   auth, result, response, array>>

\* common.py:98-101 with the token dropped by the handler.
TokenAfterFailedLoginCleared(tok) == None

\* common.py:98-101: the handler only logs and raises; line 94, the one
\* assignment of session_token, is not reached.
TokenAfterFailedLogin(tok) == tok

\* common.py:98-101: any RequestException of the POST becomes QSANApiException;
\* the token is left as it was.
LoginFail ==
    /\ rpc = "idle"
    /\ session' = "Session"
    /\ session_token' = TokenAfterFailedLogin(session_token)
    /\ \E r \in TransportErrors :
          ret' = [op |-> "login", outcome |-> "QSANApiException",
                  posts |-> LoginPosts(r, retry_count), token |-> None]
    /\ UNCHANGED <<retry_count, rpc, caller, request, attempt,
                   trace, sleeps, auth, result, response, array>>

\* common.py:105 with the test of the token left out.
NoActiveTokenHandleOnly(s, t) == s = None

\* common.py:105: there is no session or no token.
NoActiveToken(s, t) == s = None \/ t = None

\* common.py:112-113 with the exception passed on.
LogoutOutcomeRaises(res) == IF res \in {"parsed", "empty"} THEN "ok" ELSE res

\* common.py:109-113: whatever _request returned or raised is swallowed.
LogoutOutcome(res) == "ok"

\* common.py:114-117 with the fields cleared only after a successful request.
LogoutClearedOnSuccess(res, cur) == IF res \in {"parsed", "empty"} THEN None ELSE cur

\* common.py:114-117: the finally clause sets the field to None.
LogoutCleared(res, cur) == None

\* common.py:105-106
LogoutNoop ==
    /\ rpc = "idle"
    /\ NoActiveToken(session, session_token)
    /\ ret' = [op |-> "logout", outcome |-> "noop"]
    /\ UNCHANGED <<session, session_token, retry_count, rpc, caller, request,
                   attempt, trace, sleeps, auth, result, response, array>>

\* common.py:108-110
LogoutBegin ==
    /\ rpc = "idle"
    /\ ~NoActiveToken(session, session_token)
    /\ RequestBegin("logout", [kind |-> "logout"])
    /\ UNCHANGED <<session, session_token, retry_count, ret, array>>

\* common.py:113-117: whatever _request did, token and session are cleared.
LogoutFinish ==
    /\ rpc = "done"
    /\ caller = "logout"
    /\ session_token' = LogoutCleared(result, session_token)
    /\ session' = LogoutCleared(result, session)
    /\ rpc' = "idle"
    /\ ret' = [op |-> "logout", outcome |-> LogoutOutcome(result)]
    /\ UNCHANGED <<retry_count, caller, request, attempt, trace, sleeps, auth,
                   result, response, array>>

\* QSANClient.__init__, common.py:55-66, but for retry_count.
ClientFresh ==
    /\ session = None
    /\ session_token = None
    /\ rpc = "idle"
    /\ caller = None
    /\ request = [kind |-> None]
    /\ attempt = 0
    /\ trace = <<>>
    /\ sleeps = 0
    /\ auth = None
    /\ result = None
    /\ response = EmptyBody
    /\ ret = [op |-> None, outcome |-> None]

(***************************************************************************)
(* Strings are sequences of one-character strings, so that joining,        *)
(* splitting, formatting and parsing are computed as Python computes them. *)
(***************************************************************************)
Digits == <<"0", "1", "2", "3", "4", "5", "6", "7", "8", "9">>

\* str(n) of a non-negative int, as the f-string of qsan_iscsi.py:357 formats it.
RECURSIVE IntToStr(_)
IntToStr(n) ==
    IF n < 10 THEN <<Digits[n + 1]>>
    ELSE IntToStr(n \div 10) \o <<Digits[(n % 10) + 1]>>

IsDigit(c) == \E d \in 1..10 : Digits[d] = c
DigitValue(c) == (CHOOSE d \in 1..10 : Digits[d] = c) - 1

\* int(s) of qsan_iscsi.py:478 accepts a non-empty digit string (of the
\* strings the model holds) and raises ValueError for any other.
IsIntStr(s) == s # <<>> /\ \A i \in 1..Len(s) : IsDigit(s[i])

RECURSIVE StrToInt(_)
StrToInt(s) ==
    IF s = <<>> THEN 0
    ELSE 10 * StrToInt(SubSeq(s, 1, Len(s) - 1)) + DigitValue(s[Len(s)])

\* sep.join(parts)
RECURSIVE Join(_, _)
Join(parts, sep) ==
    IF parts = <<>> THEN <<>>
    ELSE IF Len(parts) = 1 THEN parts[1]
    ELSE parts[1] \o <<sep>> \o Join(Tail(parts), sep)

\* s.split(sep): the pieces between the separators, empty pieces kept.
RECURSIVE Split(_, _)
Split(s, sep) ==
    IF \A i \in 1..Len(s) : s[i] # sep THEN <<s>>
    ELSE LET i == CHOOSE j \in 1..Len(s) :
                      s[j] = sep /\ \A k \in 1..(j - 1) : s[k] # sep
         IN  <<SubSeq(s, 1, i - 1)>> \o Split(SubSeq(s, i + 1, Len(s)), sep)

Contains(s, c) == \E i \in 1..Len(s) : s[i] = c

\* The text an f-string puts for a value: "None" for None, a string as it is.
Fmt(x) == IF x = NoneS THEN <<"N", "o", "n", "e">> ELSE x

\* Python's truth value of an optional string.
Truthy(x) == x # NoneS /\ x # <<>>

(***************************************************************************)
(* The export codec: QSANISCSIDriver._get_iscsi_portals, the encoding of   *)
(* create_export and the decoding of _get_iscsi_properties.                *)
(***************************************************************************)

\* qsan_iscsi.py:197-198 with the port appended to every portal.
WithPortAlways(portal) == portal \o <<":", "3", "2", "6", "0">>

\* qsan_iscsi.py:197-198
WithPort(portal) ==
    IF ~Contains(portal, ":") THEN portal \o <<":", "3", "2", "6", "0">>
    ELSE portal

\* qsan_iscsi.py:187-201
GetIscsiPortals(c) ==
    LET portals == IF c.qsan_iscsi_portals # <<>>
                   THEN c.qsan_iscsi_portals
                   ELSE <<c.qsan_management_ip>>
    IN  [i \in 1..Len(portals) |-> WithPort(portals[i])]

\* qsan_iscsi.py:356-357 with the portals joined by a comma.
ProviderLocationCommaJoined(portals, iqn, lun) ==
    Join(portals, ",") \o <<" ">> \o Fmt(iqn) \o <<" ">> \o IntToStr(lun)

\* qsan_iscsi.py:356-357
ProviderLocation(portals, iqn, lun) ==
    Join(portals, ";") \o <<" ">> \o Fmt(iqn) \o <<" ">> \o IntToStr(lun)

\* qsan_iscsi.py:352
ProviderAuth(chap_user, chap_pass) ==
    <<"C", "H", "A", "P", " ">> \o chap_user \o <<" ">> \o chap_pass

\* qsan_iscsi.py:495-500: the CHAP fields; a key the dictionary does not
\* carry is None here.
AuthProperties(provider_auth) ==
    LET auth_parts == IF Truthy(provider_auth)
                      THEN Split(provider_auth, " ") ELSE <<>>
    IN  IF Len(auth_parts) >= 3
        THEN [auth_method |-> auth_parts[1], auth_username |-> auth_parts[2],
              auth_password |-> auth_parts[3]]
        ELSE [auth_method |-> NoneS, auth_username |-> NoneS,
              auth_password |-> NoneS]

\* qsan_iscsi.py:489 with the test always true.
IsMultipathAlways(portals) == TRUE

\* qsan_iscsi.py:489: more than one portal.
IsMultipath(portals) == Len(portals) > 1

\* qsan_iscsi.py:470-502: what the call raises, and the dictionary it returns.
GetIscsiProperties(v) ==
    IF ~Truthy(v.provider_location)
    THEN [raised |-> "VolumeBackendAPIException"]
    ELSE
    LET location_parts == Split(v.provider_location, " ")
        portals == Split(location_parts[1], ";")
    IN  IF Len(location_parts) < 3 THEN [raised |-> "IndexError"]
        ELSE IF ~IsIntStr(location_parts[3]) THEN [raised |-> "ValueError"]
        ELSE
        LET iqn == location_parts[2]
            target_lun == StrToInt(location_parts[3])
            multi == IsMultipath(portals)
            chap == AuthProperties(v.provider_auth)
        IN  [raised |-> None,
             target_discovered |-> FALSE,
             target_iqn |-> iqn,
             target_portal |-> portals[1],
             target_lun |-> target_lun,
             volume_id |-> v.id,
             target_portals |-> IF multi THEN portals ELSE NoneS,
             target_iqns |-> IF multi
                             THEN [i \in 1..Len(portals) |-> iqn]
                             ELSE NoneS,
             target_luns |-> IF multi
                             THEN [i \in 1..Len(portals) |-> target_lun]
                             ELSE NoneS,
             auth_method |-> chap.auth_method,
             auth_username |-> chap.auth_username,
             auth_password |-> chap.auth_password]

\* Configured portal addresses and IQNs the codec is run on: plain ones, ones
\* that carry a port, and ones that hold the characters the format uses as
\* separators.
MaxPortals == 2
MaxLun == 11
PortalSamples ==
    { <<"a">>, <<"b", ":", "7">>, <<"c", ";", "d">>, <<"e", " ", "f">> }
IqnSamples ==
    { <<"q">>, <<"i", "q", "n", ":", "t", "1">>, <<"q", ";", "r">>,
      <<"q", " ", "1">>, <<"q", " ">> }
ManagementIp == <<"m">>
PoolName == <<"p", "1">>

PortalLists ==
    UNION { [1..n -> PortalSamples] : n \in 0..MaxPortals }

NoChap == [enabled |-> FALSE, username |-> NoneS, password |-> NoneS]

Configuration(portals, chap) ==
    [qsan_iscsi_portals |-> portals,
     qsan_management_ip |-> ManagementIp,
     qsan_chap_enabled |-> chap.enabled,
     qsan_chap_username |-> chap.username,
     qsan_chap_password |-> chap.password,
     qsan_login |-> <<"l">>,
     qsan_password |-> <<"w">>,
     qsan_pool_name |-> PoolName,
     qsan_thin_provision |-> TRUE]

NewVolume ==
    [id |-> "v1", size |-> 1, provider_location |-> NoneS, provider_auth |-> NoneS]

CodecIdle ==
    /\ cin = [iqn |-> NoneS, lun_id |-> 0]
    /\ cpc = "idle"
    /\ properties = [raised |-> None]

\* qsan_iscsi.py:345-352, 355-365: the location and authentication strings
\* are built and, returned to the volume manager, stored in the volume record.
CodecEncode ==
    /\ cpc = "start"
    /\ volume' = [volume EXCEPT
                     !.provider_location =
                         ProviderLocation(GetIscsiPortals(conf), cin.iqn,
                                          cin.lun_id),
                     !.provider_auth =
                         IF /\ conf.qsan_chap_enabled
                            /\ Truthy(conf.qsan_chap_username)
                            /\ Truthy(conf.qsan_chap_password)
                         THEN ProviderAuth(conf.qsan_chap_username,
                                           conf.qsan_chap_password)
                         ELSE NoneS]
    /\ cpc' = "encoded"
    /\ UNCHANGED <<conf, cin, properties>>

\* qsan_iscsi.py:453
CodecDecode ==
    /\ cpc = "encoded"
    /\ properties' = GetIscsiProperties(volume)
    /\ cpc' = "decoded"
    /\ UNCHANGED <<conf, cin, volume>>

\* A lookup that found nothing, and an operation that returned nothing.
NoInfo == [kind |-> "none"]
NoTarget == [id |-> NoneS]
NoValue == [provider_location |-> NoneS, provider_auth |-> NoneS]
NoStats == [kind |-> "none"]
NoArgs == [kind |-> "none"]

\* QSANISCSIDriver.__init__, qsan_iscsi.py:80-85
DriverFresh ==
    /\ ready = FALSE
    /\ dpc = "idle"
    /\ dop = None
    /\ calls = <<>>
    /\ target_info = NoTarget
    /\ vol_info = NoInfo
    /\ target_id = NoneS
    /\ target_iqn = NoneS
    /\ lun_id = 0
    /\ dret = [op |-> None, raised |-> None, data |-> NoneS,
            value |-> NoValue]
    /\ stats = NoStats
    /\ args = NoArgs

(***************************************************************************)
(* The client's iSCSI methods: the request each one sends.                 *)
(***************************************************************************)
\* common.py:309-322
create_iscsi_target(target_name) ==
    [kind |-> "create_iscsi_target", name |-> target_name]
\* common.py:324-330 with the id of another target in the URL.
delete_iscsi_targetOther(tid) ==
    [kind |-> "delete_iscsi_target", target_id |-> <<"tid", "other">>]

\* common.py:324-330
delete_iscsi_target(tid) ==
    [kind |-> "delete_iscsi_target", target_id |-> tid]
\* common.py:357-371 with the id of another target in the URL.
map_volume_to_targetOther(volume_name, tid) ==
    [kind |-> "map_volume_to_target", volume |-> volume_name,
     target_id |-> <<"tid", "other">>]

\* common.py:357-371
map_volume_to_target(volume_name, tid) ==
    [kind |-> "map_volume_to_target", volume |-> volume_name, target_id |-> tid]
\* common.py:424-436
set_target_chap(tid, username, password) ==
    [kind |-> "set_target_chap", target_id |-> tid, username |-> username,
     password |-> password]
\* common.py:347-350
get_iscsi_targets(target_name) ==
    [kind |-> "get_iscsi_targets", name |-> target_name]

\* common.py:349-355: the first target of the list; None for an empty list,
\* an empty answer or a QSANApiException.
TargetByName(res, body) ==
    IF res = "parsed" /\ Len(body.items) > 0 THEN body.items[1] ELSE NoTarget

\* qsan_iscsi.py:166-172
GetSnapshotName(snap) == <<"snapshot", snap.id>>
\* The snapshot the driver is called with; snapshot.volume is the volume.
NewSnapshot == [id |-> "s1"]

\* common.py:171, 193, 279 with a decimal gigabyte.
BytesDecimal(size_gb) == size_gb * 1953125

\* common.py:171, 193, 279: size_gb * units.Gi
Bytes(size_gb) == size_gb * Gi

\* common.py:160-176
create_volume(pool_name, volume_name, size_gb, thin) ==
    [kind |-> "create_volume", pool |-> pool_name, name |-> volume_name,
     size |-> Bytes(size_gb), thin_provision |-> thin]
\* common.py:186-196
extend_volume(volume_name, new_size_gb) ==
    [kind |-> "extend_volume", name |-> volume_name, size |-> Bytes(new_size_gb)]
\* common.py:211-223
create_snapshot(volume_name, snapshot_name) ==
    [kind |-> "create_snapshot", volume |-> volume_name, name |-> snapshot_name]
\* common.py:250-264, called without a snapshot name.
clone_volume(src_volume_name, dst_volume_name) ==
    [kind |-> "clone_volume", src |-> src_volume_name, name |-> dst_volume_name]
\* common.py:266-281: the size is sent when size_gb is truthy; -1 stands for
\* a request without 'size'.
create_volume_from_snapshot(snap_volume, snap_name, new_name, size_gb) ==
    [kind |-> "create_volume_from_snapshot", volume |-> snap_volume,
     snapshot |-> snap_name, name |-> new_name,
     size |-> IF size_gb # 0 THEN Bytes(size_gb) ELSE -1]
\* common.py:285-292
get_pool(pool_name) == [kind |-> "get_pool", name |-> pool_name]
\* common.py:403-413
add_initiator_to_target(tid, initiator_iqn) ==
    [kind |-> "add_initiator_to_target", target_id |-> tid,
     initiator |-> initiator_iqn]
\* common.py:415-422
remove_initiator_from_target(tid, initiator_iqn) ==
    [kind |-> "remove_initiator_from_target", target_id |-> tid,
     initiator |-> initiator_iqn]

\* common.py:198-205
get_volume(volume_name) == [kind |-> "get_volume", name |-> volume_name]
\* common.py:178-184
delete_volume(volume_name) == [kind |-> "delete_volume", name |-> volume_name]
\* common.py:234-243
get_snapshot(volume_name, snapshot_name) ==
    [kind |-> "get_snapshot", volume |-> volume_name, name |-> snapshot_name]
\* common.py:225-232
delete_snapshot(volume_name, snapshot_name) ==
    [kind |-> "delete_snapshot", volume |-> volume_name, name |-> snapshot_name]

\* common.py:205-208, 243-246: what _request returned (the parsed body, or
\* None for an empty one), and None for a QSANApiException.
InfoOf(res, body) == IF res = "parsed" THEN body ELSE NoInfo

\* common.py:207, 245, 354 with the exception passed on.
LookupOutcomeRaises(res) == IF res \in {"parsed", "empty"} THEN "returned" ELSE res

\* common.py:207, 245, 354: the except clause catches QSANApiException and
\* nothing else.
LookupOutcome(res) == IF res = "QSANApiException" THEN "returned"
                      ELSE LookupOutcomeRaises(res)

\* An array that holds the volume, its snapshot and the volume's target.
StockedArray ==
    [EmptyArray EXCEPT !.volumes = {GetVolumeName(NewVolume)},
                       !.snapshots = {<<GetVolumeName(NewVolume),
                                        GetSnapshotName(NewSnapshot)>>},
                       !.targets = {GetTargetName(NewVolume)}]

\* The get-style lookups called directly on the client
\* (common.py:198-208, 234-246, 341-355).
LookupRequests ==
    { get_volume(GetVolumeName(NewVolume)),
      get_snapshot(GetVolumeName(NewVolume), GetSnapshotName(NewSnapshot)),
      get_iscsi_targets(GetTargetName(NewVolume)) }

CallLookup ==
    /\ rpc = "idle"
    /\ \E req \in LookupRequests : RequestBegin("lookup", req)
    /\ UNCHANGED <<session, session_token, retry_count, ret, array>>

ReturnLookup ==
    /\ rpc = "done"
    /\ caller = "lookup"
    /\ rpc' = "idle"
    /\ ret' = [op |-> request.kind,
               outcome |-> LookupOutcome(result),
               value |-> IF request.kind = "get_iscsi_targets"
                         THEN TargetByName(result, response)
                         ELSE InfoOf(result, response)]
    /\ UNCHANGED <<session, session_token, retry_count, caller, request, attempt,
                   trace, sleeps, auth, result, response, array>>

(***************************************************************************)
(* QSANISCSIDriver: do_setup and the export operations. The volume manager *)
(* calls one operation at a time, and none before do_setup has succeeded.  *)
(***************************************************************************)
reqvars == <<caller, request, attempt, trace, sleeps, auth, result, response>>
locals == <<target_info, vol_info, target_id, target_iqn, lun_id>>

DriverIdle == ready /\ dpc = "idle" /\ rpc = "idle"
Answered(pos) == dpc = pos /\ rpc = "done" /\ caller = "driver"

\* The operation's next client call.
DriverCall(pos, req) ==
    /\ dpc' = pos
    /\ calls' = Append(calls, req)
    /\ RequestBegin("driver", req)
    /\ UNCHANGED <<session, session_token, retry_count, ret, array>>

\* qsan_iscsi.py:268, 368-369, 417-418: the message names the volume;
\* 550-551, 579-580: the snapshot; 605, 633: nothing but the cause.
ExceptionData(raised) ==
    IF raised # "VolumeBackendAPIException" THEN NoneS
    ELSE IF dop \in {"delete_snapshot", "create_snapshot"}
         THEN GetSnapshotName(NewSnapshot)
    ELSE IF dop \in {"create_volume_from_snapshot", "create_cloned_volume"}
         THEN NoneS
    ELSE GetVolumeName(volume)

\* The operation returns or raises.
DriverReturn(raised, value) ==
    /\ dpc' = "idle"
    /\ rpc' = "idle"
    /\ dret' = [op |-> dop, raised |-> raised, data |-> ExceptionData(raised),
                value |-> value]
    /\ UNCHANGED <<session, session_token, retry_count, ret, array, reqvars>>

\* qsan_iscsi.py:107-121
DoSetupOk ==
    /\ ~ready
    /\ dpc = "idle"
    /\ LoginOk
    /\ ready' = TRUE
    /\ dop' = "do_setup"
    /\ dret' = [op |-> "do_setup", raised |-> None, data |-> NoneS,
            value |-> NoValue]
    /\ UNCHANGED <<dpc, calls, locals, conf, volume>>

\* qsan_iscsi.py:122-125
DoSetupFail ==
    /\ ~ready
    /\ dpc = "idle"
    /\ LoginFail
    /\ dop' = "do_setup"
    /\ dret' = [op |-> "do_setup", raised |-> "VolumeDriverException",
                data |-> NoneS, value |-> NoValue]
    /\ UNCHANGED <<ready, dpc, calls, locals, conf, volume>>

\* qsan_iscsi.py:367-371 with the exception passed on as it is.
ExportFailureUnwrapped(res) == res

\* qsan_iscsi.py:367-371: QSANApiException becomes VolumeBackendAPIException.
ExportFailure(res) ==
    IF res = "QSANApiException" THEN "VolumeBackendAPIException" ELSE res

\* qsan_iscsi.py:346-349 with the test of the credentials left out.
ChapConfiguredEnabledOnly(c) == c.qsan_chap_enabled

\* qsan_iscsi.py:346-349
ChapConfigured(c) ==
    /\ c.qsan_chap_enabled
    /\ Truthy(c.qsan_chap_username)
    /\ Truthy(c.qsan_chap_password)

\* qsan_iscsi.py:382 with the test never true.
HasExportNever(v) == FALSE

\* qsan_iscsi.py:382
HasExport(v) == Truthy(v.provider_location)

\* qsan_iscsi.py:328-335: the first step of create_export, whoever calls it.
CreateExportBegin(op) ==
    /\ DriverIdle
    /\ dop' = op
    /\ calls' = <<create_iscsi_target(GetTargetName(volume))>>
    /\ dpc' = "create_iscsi_target"
    /\ RequestBegin("driver", create_iscsi_target(GetTargetName(volume)))
    /\ target_info' = NoTarget
    /\ vol_info' = NoInfo
    /\ target_id' = NoneS
    /\ target_iqn' = NoneS
    /\ lun_id' = 0
    /\ UNCHANGED <<session, session_token, retry_count, ret, array, ready, dret,
                   conf, volume>>

\* qsan_iscsi.py:318-335
CreateExport == CreateExportBegin("create_export")

\* qsan_iscsi.py:336-341
CreateExportTargetCreated ==
    /\ Answered("create_iscsi_target")
    /\ result = "parsed"
    /\ target_id' = response.id
    /\ target_iqn' = response.iqn
    /\ DriverCall("map_volume_to_target",
                  map_volume_to_target(GetVolumeName(volume), response.id))
    /\ UNCHANGED <<ready, dop, target_info, vol_info, lun_id, dret, conf, volume>>

\* qsan_iscsi.py:355-365: the dictionary create_export returns. The volume
\* manager stores it in the volume record; ensure_export (line 388) drops it
\* and returns None.
CreateExportReturn(lun, provider_auth) ==
    LET model_update ==
            [provider_location |->
                 ProviderLocation(GetIscsiPortals(conf), target_iqn, lun),
             provider_auth |-> provider_auth]
    IN  IF dop = "create_export"
        THEN /\ DriverReturn(None, model_update)
             /\ volume' = [volume EXCEPT
                              !.provider_location = model_update.provider_location,
                              !.provider_auth = model_update.provider_auth]
        ELSE /\ DriverReturn(None, NoValue)
             /\ volume' = volume

\* qsan_iscsi.py:342-349, 355-365: CHAP is off or lacks a credential.
CreateExportMapped ==
    /\ Answered("map_volume_to_target")
    /\ result = "parsed"
    /\ ~ChapConfigured(conf)
    /\ lun_id' = (IF response.lun_id = -1 THEN 0 ELSE response.lun_id)
    /\ CreateExportReturn(lun_id', NoneS)
    /\ UNCHANGED <<ready, dop, calls, target_info, vol_info, target_id, target_iqn,
                   conf>>

\* qsan_iscsi.py:342-351
CreateExportMappedSetChap ==
    /\ Answered("map_volume_to_target")
    /\ result = "parsed"
    /\ ChapConfigured(conf)
    /\ lun_id' = (IF response.lun_id = -1 THEN 0 ELSE response.lun_id)
    /\ DriverCall("set_target_chap",
                  set_target_chap(target_id, conf.qsan_chap_username,
                                  conf.qsan_chap_password))
    /\ UNCHANGED <<ready, dop, target_info, vol_info, target_id, target_iqn, dret,
                   conf, volume>>

\* qsan_iscsi.py:352-365
CreateExportChapSet ==
    /\ Answered("set_target_chap")
    /\ result \in {"parsed", "empty"}
    /\ CreateExportReturn(lun_id, ProviderAuth(conf.qsan_chap_username,
                                                conf.qsan_chap_password))
    /\ UNCHANGED <<ready, dop, calls, locals, conf>>

\* qsan_iscsi.py:367-371: a step of create_export raised.
CreateExportFailed ==
    /\ \/ Answered("create_iscsi_target")
       \/ Answered("map_volume_to_target")
       \/ Answered("set_target_chap")
    /\ result = "QSANApiException"
    /\ DriverReturn(ExportFailure(result), NoValue)
    /\ UNCHANGED <<ready, dop, calls, locals, conf, volume>>

\* qsan_iscsi.py:382-384
EnsureExportSkip ==
    /\ DriverIdle
    /\ HasExport(volume)
    /\ dop' = "ensure_export"
    /\ calls' = <<>>
    /\ dret' = [op |-> "ensure_export", raised |-> None, data |-> NoneS,
            value |-> NoValue]
    /\ UNCHANGED <<cvars, ready, dpc, locals, conf, volume>>

\* qsan_iscsi.py:386-388
EnsureExportCreate ==
    /\ ~HasExport(volume)
    /\ CreateExportBegin("ensure_export")

\* qsan_iscsi.py:396-404
RemoveExport ==
    /\ DriverIdle
    /\ dop' = "remove_export"
    /\ calls' = <<get_iscsi_targets(GetTargetName(volume))>>
    /\ dpc' = "get_iscsi_target_by_name"
    /\ RequestBegin("driver", get_iscsi_targets(GetTargetName(volume)))
    /\ target_info' = NoTarget
    /\ vol_info' = NoInfo
    /\ target_id' = NoneS
    /\ target_iqn' = NoneS
    /\ lun_id' = 0
    /\ UNCHANGED <<session, session_token, retry_count, ret, array, ready, dret,
                   conf, volume>>

\* qsan_iscsi.py:405 with the test never true.
RemoveExportSkipsNever(info) == FALSE

\* qsan_iscsi.py:405
RemoveExportSkips(info) == info = NoTarget

\* qsan_iscsi.py:403-408
RemoveExportAbsent ==
    /\ Answered("get_iscsi_target_by_name")
    /\ target_info' = TargetByName(result, response)
    /\ RemoveExportSkips(target_info')
    /\ DriverReturn(None, NoValue)
    /\ UNCHANGED <<ready, dop, calls, vol_info, target_id, target_iqn, lun_id, conf,
                   volume>>

\* qsan_iscsi.py:403-413: target_info.get('id') of None raises AttributeError.
RemoveExportDelete ==
    /\ Answered("get_iscsi_target_by_name")
    /\ target_info' = TargetByName(result, response)
    /\ ~RemoveExportSkips(target_info')
    /\ IF target_info' = NoTarget
       THEN /\ DriverReturn("AttributeError", NoValue)
            /\ UNCHANGED <<calls, target_id>>
       ELSE /\ target_id' = target_info'.id
            /\ DriverCall("delete_iscsi_target",
                          delete_iscsi_target(target_info'.id))
            /\ UNCHANGED dret
    /\ UNCHANGED <<ready, dop, vol_info, target_iqn, lun_id, conf, volume>>

\* qsan_iscsi.py:413-414
RemoveExportDeleted ==
    /\ Answered("delete_iscsi_target")
    /\ result \in {"parsed", "empty"}
    /\ DriverReturn(None, NoValue)
    /\ UNCHANGED <<ready, dop, calls, locals, conf, volume>>

\* qsan_iscsi.py:416-420
RemoveExportFailed ==
    /\ Answered("delete_iscsi_target")
    /\ result = "QSANApiException"
    /\ DriverReturn(ExportFailure(result), NoValue)
    /\ UNCHANGED <<ready, dop, calls, locals, conf, volume>>

(***************************************************************************)
(* QSANISCSIDriver: delete_volume and delete_snapshot.                     *)
(***************************************************************************)
\* qsan_iscsi.py:284, 571 with the test never true.
DeleteSkipsNever(info) == FALSE

\* qsan_iscsi.py:284, 571: the lookup returned None.
DeleteSkips(info) == info = NoInfo

\* The first step of a delete operation: the presence lookup.
DeleteBegin(op, pos, req) ==
    /\ DriverIdle
    /\ dop' = op
    /\ calls' = <<req>>
    /\ dpc' = pos
    /\ RequestBegin("driver", req)
    /\ target_info' = NoTarget
    /\ vol_info' = NoInfo
    /\ target_id' = NoneS
    /\ target_iqn' = NoneS
    /\ lun_id' = 0
    /\ UNCHANGED <<session, session_token, retry_count, ret, array, ready, dret,
                   conf, volume>>

\* The lookup returned None: the operation returns.
DeleteAbsent(pos) ==
    /\ Answered(pos)
    /\ vol_info' = InfoOf(result, response)
    /\ DeleteSkips(vol_info')
    /\ DriverReturn(None, NoValue)
    /\ UNCHANGED <<ready, dop, calls, target_info, target_id, target_iqn, lun_id,
                   conf, volume>>

\* The lookup returned a record: the delete request.
DeleteFound(pos, next, req) ==
    /\ Answered(pos)
    /\ vol_info' = InfoOf(result, response)
    /\ ~DeleteSkips(vol_info')
    /\ DriverCall(next, req)
    /\ UNCHANGED <<ready, dop, target_info, target_id, target_iqn, lun_id, dret,
                   conf, volume>>

\* The delete request was answered.
DeleteDone(pos) ==
    /\ Answered(pos)
    /\ result \in {"parsed", "empty"}
    /\ DriverReturn(None, NoValue)
    /\ UNCHANGED <<ready, dop, calls, locals, conf, volume>>

\* The delete request raised QSANApiException.
DeleteFailed(pos) ==
    /\ Answered(pos)
    /\ result = "QSANApiException"
    /\ DriverReturn(ExportFailure(result), NoValue)
    /\ UNCHANGED <<ready, dop, calls, locals, conf, volume>>

\* qsan_iscsi.py:273-283
DeleteVolume ==
    DeleteBegin("delete_volume", "get_volume", get_volume(GetVolumeName(volume)))
\* qsan_iscsi.py:283-287
DeleteVolumeAbsent == dop = "delete_volume" /\ DeleteAbsent("get_volume")
\* qsan_iscsi.py:283-289
DeleteVolumeFound ==
    /\ dop = "delete_volume"
    /\ DeleteFound("get_volume", "delete_volume",
                   delete_volume(GetVolumeName(volume)))
\* qsan_iscsi.py:289-290
DeleteVolumeDone == dop = "delete_volume" /\ DeleteDone("delete_volume")
\* qsan_iscsi.py:291-294
DeleteVolumeFailed == dop = "delete_volume" /\ DeleteFailed("delete_volume")

\* qsan_iscsi.py:555-570
DeleteSnapshot ==
    DeleteBegin("delete_snapshot", "get_snapshot",
                get_snapshot(GetVolumeName(volume), GetSnapshotName(NewSnapshot)))
\* qsan_iscsi.py:569-574
DeleteSnapshotAbsent == dop = "delete_snapshot" /\ DeleteAbsent("get_snapshot")
\* qsan_iscsi.py:569-576
DeleteSnapshotFound ==
    /\ dop = "delete_snapshot"
    /\ DeleteFound("get_snapshot", "delete_snapshot",
                   delete_snapshot(GetVolumeName(volume),
                                   GetSnapshotName(NewSnapshot)))
\* qsan_iscsi.py:576-577
DeleteSnapshotDone == dop = "delete_snapshot" /\ DeleteDone("delete_snapshot")
\* qsan_iscsi.py:578-582
DeleteSnapshotFailed == dop = "delete_snapshot" /\ DeleteFailed("delete_snapshot")

(***************************************************************************)
(* QSANISCSIDriver: initialize_connection and terminate_connection.        *)
(***************************************************************************)
\* The connectors the volume manager passes: None, a dictionary without the
\* key 'initiator', and one with it.
NoConnector == [kind |-> "none", initiator |-> NoneS]
Connectors ==
    { NoConnector,
      [kind |-> "dict", initiator |-> NoneS],
      [kind |-> "dict", initiator |-> <<"i", "1">>] }

\* qsan_iscsi.py:436, 516: connector and 'initiator' in connector
HasInitiator(connector) == connector.kind = "dict" /\ connector.initiator # NoneS

\* qsan_iscsi.py:449-452 with the exception passed on.
AclAddFailureSurfaced(res) == IF res = "QSANApiException" THEN res ELSE None

\* qsan_iscsi.py:449-452: the QSANApiException of the ACL request is logged.
AclAddFailure(res) == None

\* qsan_iscsi.py:527-531 with the exception passed on.
AclRemoveFailureSurfaced(res) == IF res = "QSANApiException" THEN res ELSE None

\* qsan_iscsi.py:527-531: the QSANApiException of the ACL request is logged.
AclRemoveFailure(res) == None

\* The first step of a connection operation whose connector carries an
\* initiator: the target lookup (qsan_iscsi.py:436-439, 516-519).
ConnectionBegin(op) ==
    /\ DriverIdle
    /\ \E c \in Connectors : HasInitiator(c) /\ args' = [connector |-> c]
    /\ dop' = op
    /\ calls' = <<get_iscsi_targets(GetTargetName(volume))>>
    /\ dpc' = "get_iscsi_target_by_name"
    /\ RequestBegin("driver", get_iscsi_targets(GetTargetName(volume)))
    /\ target_info' = NoTarget
    /\ vol_info' = NoInfo
    /\ target_id' = NoneS
    /\ target_iqn' = NoneS
    /\ lun_id' = 0
    /\ UNCHANGED <<session, session_token, retry_count, ret, array, ready, dret,
                   stats, conf, volume>>

\* qsan_iscsi.py:454-459: the properties are decoded and returned, or the
\* exception of _get_iscsi_properties leaves through the handler of 461-462.
ConnectionProperties(raised) ==
    LET iscsi_properties == GetIscsiProperties(volume)
    IN  IF raised # None THEN DriverReturn(raised, NoValue)
        ELSE IF iscsi_properties.raised # None
        THEN DriverReturn(iscsi_properties.raised, NoValue)
        ELSE DriverReturn(None, [driver_volume_type |-> "iscsi",
                                 data |-> iscsi_properties])

\* qsan_iscsi.py:436, 453-459: no initiator, no remote call.
InitializeConnectionNoInitiator ==
    /\ DriverIdle
    /\ \E c \in Connectors : ~HasInitiator(c) /\ args' = [connector |-> c]
    /\ dop' = "initialize_connection"
    /\ calls' = <<>>
    /\ target_info' = NoTarget
    /\ vol_info' = NoInfo
    /\ target_id' = NoneS
    /\ target_iqn' = NoneS
    /\ lun_id' = 0
    /\ dpc' = "idle"
    /\ LET iscsi_properties == GetIscsiProperties(volume)
       IN  dret' = IF iscsi_properties.raised # None
                   THEN [op |-> "initialize_connection",
                         raised |-> iscsi_properties.raised,
                         data |-> IF iscsi_properties.raised =
                                        "VolumeBackendAPIException"
                                  THEN GetVolumeName(volume) ELSE NoneS,
                         value |-> NoValue]
                   ELSE [op |-> "initialize_connection", raised |-> None,
                         data |-> NoneS,
                         value |-> [driver_volume_type |-> "iscsi",
                                    data |-> iscsi_properties]]
    /\ UNCHANGED <<cvars, ready, stats, conf, volume>>

\* qsan_iscsi.py:436-439
InitializeConnection == ConnectionBegin("initialize_connection")

\* qsan_iscsi.py:440 with the test of target_info left out.
ConnectionSkipsAclNever(info) == FALSE

\* qsan_iscsi.py:440: if target_info; a lookup that found nothing or failed
\* gives None.
ConnectionSkipsAcl(info) == info = NoTarget

\* qsan_iscsi.py:438-440, 453-459: no target was found.
InitializeConnectionNoTarget ==
    /\ dop = "initialize_connection"
    /\ Answered("get_iscsi_target_by_name")
    /\ target_info' = TargetByName(result, response)
    /\ ConnectionSkipsAcl(target_info')
    /\ ConnectionProperties(None)
    /\ UNCHANGED <<ready, dop, calls, vol_info, target_id, target_iqn, lun_id,
                   stats, args, conf, volume>>

\* qsan_iscsi.py:440-444
InitializeConnectionAddInitiator ==
    /\ dop = "initialize_connection"
    /\ Answered("get_iscsi_target_by_name")
    /\ target_info' = TargetByName(result, response)
    /\ ~ConnectionSkipsAcl(target_info')
    /\ target_id' = target_info'.id
    /\ DriverCall("add_initiator_to_target",
                  add_initiator_to_target(target_info'.id,
                                          args.connector.initiator))
    /\ UNCHANGED <<ready, dop, vol_info, target_iqn, lun_id, dret, stats, args,
                   conf, volume>>

\* qsan_iscsi.py:443-446, 453-459
InitializeConnectionAdded ==
    /\ dop = "initialize_connection"
    /\ Answered("add_initiator_to_target")
    /\ result \in {"parsed", "empty"}
    /\ ConnectionProperties(None)
    /\ UNCHANGED <<ready, dop, calls, locals, stats, args, conf, volume>>

\* qsan_iscsi.py:449-459
InitializeConnectionAddFailed ==
    /\ dop = "initialize_connection"
    /\ Answered("add_initiator_to_target")
    /\ result = "QSANApiException"
    /\ ConnectionProperties(AclAddFailure(result))
    /\ UNCHANGED <<ready, dop, calls, locals, stats, args, conf, volume>>

\* qsan_iscsi.py:516: no initiator, no remote call.
TerminateConnectionNoInitiator ==
    /\ DriverIdle
    /\ \E c \in Connectors : ~HasInitiator(c) /\ args' = [connector |-> c]
    /\ dop' = "terminate_connection"
    /\ calls' = <<>>
    /\ target_info' = NoTarget
    /\ vol_info' = NoInfo
    /\ target_id' = NoneS
    /\ target_iqn' = NoneS
    /\ lun_id' = 0
    /\ dpc' = "idle"
    /\ dret' = [op |-> "terminate_connection", raised |-> None, data |-> NoneS,
                value |-> NoValue]
    /\ UNCHANGED <<cvars, ready, stats, conf, volume>>

\* qsan_iscsi.py:516-519
TerminateConnection == ConnectionBegin("terminate_connection")

\* qsan_iscsi.py:518-520: no target was found.
TerminateConnectionNoTarget ==
    /\ dop = "terminate_connection"
    /\ Answered("get_iscsi_target_by_name")
    /\ target_info' = TargetByName(result, response)
    /\ target_info' = NoTarget
    /\ DriverReturn(None, NoValue)
    /\ UNCHANGED <<ready, dop, calls, vol_info, target_id, target_iqn, lun_id,
                   stats, args, conf, volume>>

\* qsan_iscsi.py:520-524
TerminateConnectionRemoveInitiator ==
    /\ dop = "terminate_connection"
    /\ Answered("get_iscsi_target_by_name")
    /\ target_info' = TargetByName(result, response)
    /\ target_info' # NoTarget
    /\ target_id' = target_info'.id
    /\ DriverCall("remove_initiator_from_target",
                  remove_initiator_from_target(target_info'.id,
                                               args.connector.initiator))
    /\ UNCHANGED <<ready, dop, vol_info, target_iqn, lun_id, dret, stats, args,
                   conf, volume>>

\* qsan_iscsi.py:523-526
TerminateConnectionRemoved ==
    /\ dop = "terminate_connection"
    /\ Answered("remove_initiator_from_target")
    /\ result \in {"parsed", "empty"}
    /\ DriverReturn(None, NoValue)
    /\ UNCHANGED <<ready, dop, calls, locals, stats, args, conf, volume>>

\* qsan_iscsi.py:527-531
TerminateConnectionRemoveFailed ==
    /\ dop = "terminate_connection"
    /\ Answered("remove_initiator_from_target")
    /\ result = "QSANApiException"
    /\ DriverReturn(AclRemoveFailure(result), NoValue)
    /\ UNCHANGED <<ready, dop, calls, locals, stats, args, conf, volume>>

(***************************************************************************)
(* QSANISCSIDriver: check_for_setup_error and get_volume_stats.            *)
(***************************************************************************)
\* qsan_iscsi.py:134-139
RequiredOpts ==
    {"qsan_management_ip", "qsan_login", "qsan_password", "qsan_pool_name"}

\* qsan_iscsi.py:141-142 with the test never true.
MissingOptsNone(c) == {}

\* qsan_iscsi.py:141-142: the required options that are None or empty.
MissingOpts(c) == { opt \in RequiredOpts : ~Truthy(c[opt]) }

\* An operation that ends without a client call.
DriverReturnAtOnce(op, raised, value) ==
    /\ DriverIdle
    /\ dop' = op
    /\ calls' = <<>>
    /\ dret' = [op |-> op, raised |-> raised, data |-> NoneS, value |-> value]
    /\ UNCHANGED <<cvars, ready, dpc, locals, conf, volume>>

\* The first client call of an operation that keeps no locals.
DriverBegin(op, pos, req) ==
    /\ DriverIdle
    /\ dop' = op
    /\ calls' = <<req>>
    /\ dpc' = pos
    /\ RequestBegin("driver", req)
    /\ UNCHANGED <<session, session_token, retry_count, ret, array, ready, dret,
                   locals, conf, volume>>

\* qsan_iscsi.py:141-145
CheckForSetupErrorMissing ==
    /\ MissingOpts(conf) # {}
    /\ DriverReturnAtOnce("check_for_setup_error", "VolumeDriverException",
                          NoValue)
    /\ UNCHANGED <<stats, args>>

\* qsan_iscsi.py:141-150
CheckForSetupError ==
    /\ MissingOpts(conf) = {}
    /\ DriverBegin("check_for_setup_error", "get_pool",
                   get_pool(conf.qsan_pool_name))
    /\ UNCHANGED <<stats, args>>

\* qsan_iscsi.py:150-151
CheckForSetupErrorVerified ==
    /\ dop = "check_for_setup_error"
    /\ Answered("get_pool")
    /\ result \in {"parsed", "empty"}
    /\ DriverReturn(None, NoValue)
    /\ UNCHANGED <<ready, dop, calls, locals, stats, args, conf, volume>>

\* qsan_iscsi.py:152-155
CheckForSetupErrorFailed ==
    /\ dop = "check_for_setup_error"
    /\ Answered("get_pool")
    /\ result = "QSANApiException"
    /\ DriverReturn("VolumeDriverException", NoValue)
    /\ UNCHANGED <<ready, dop, calls, locals, stats, args, conf, volume>>

\* qsan_iscsi.py:211 with the test always true.
NeedsUpdateAlways(refresh, st) == TRUE

\* qsan_iscsi.py:211: refresh or not self._stats
NeedsUpdate(refresh, st) == refresh \/ st = NoStats

\* qsan_iscsi.py:227-242: the capacities are in gigabytes.
Stats(total_capacity_gb, free_capacity_gb) ==
    [kind |-> "stats",
     volume_backend_name |-> "QSAN_iSCSI",
     storage_protocol |-> "iSCSI",
     total_capacity_gb |-> total_capacity_gb,
     free_capacity_gb |-> free_capacity_gb,
     thin_provisioning_support |-> TRUE,
     thick_provisioning_support |-> TRUE,
     QoS_support |-> FALSE,
     multiattach |-> FALSE]

\* qsan_iscsi.py:211-213: the stored statistics are returned as they are.
GetVolumeStatsCached ==
    /\ \E refresh \in BOOLEAN :
          /\ ~NeedsUpdate(refresh, stats)
          /\ args' = [refresh |-> refresh]
    /\ DriverReturnAtOnce("get_volume_stats", None, stats)
    /\ UNCHANGED stats

\* qsan_iscsi.py:211-219, common.py:294-300
GetVolumeStats ==
    /\ \E refresh \in BOOLEAN :
          /\ NeedsUpdate(refresh, stats)
          /\ args' = [refresh |-> refresh]
    /\ DriverBegin("get_volume_stats", "get_pool_stats",
                   get_pool(conf.qsan_pool_name))
    /\ UNCHANGED stats

\* qsan_iscsi.py:219-221, 229-242, 213
GetVolumeStatsUpdated ==
    /\ dop = "get_volume_stats"
    /\ Answered("get_pool_stats")
    /\ result = "parsed"
    /\ stats' = Stats(response.total_capacity \div Gi,
                      response.free_capacity \div Gi)
    /\ DriverReturn(None, stats')
    /\ UNCHANGED <<ready, dop, calls, locals, args, conf, volume>>

\* qsan_iscsi.py:222-242 with the stored statistics left as they were.
StatsAfterFailureKept(st) == st

\* qsan_iscsi.py:222-242: both capacities are set to 0 and the record built
\* from them replaces the stored one.
StatsAfterFailure(st) == Stats(0, 0)

\* qsan_iscsi.py:222-225, 229-242, 213: the capacities are reported as 0.
GetVolumeStatsFailed ==
    /\ dop = "get_volume_stats"
    /\ Answered("get_pool_stats")
    /\ result = "QSANApiException"
    /\ stats' = StatsAfterFailure(stats)
    /\ DriverReturn(None, stats')
    /\ UNCHANGED <<ready, dop, calls, locals, args, conf, volume>>

\* common.py:300-302: get_pool returned None for an empty body, and
\* pool_info.get raises AttributeError, which nothing catches.
GetVolumeStatsNoPoolInfo ==
    /\ dop = "get_volume_stats"
    /\ Answered("get_pool_stats")
    /\ result = "empty"
    /\ DriverReturn("AttributeError", NoValue)
    /\ UNCHANGED <<ready, dop, calls, locals, stats, args, conf, volume>>

(***************************************************************************)
(* QSANISCSIDriver: create_volume, extend_volume, create_snapshot,         *)
(* create_volume_from_snapshot and create_cloned_volume.                   *)
(***************************************************************************)
MaxSize == 2

\* The volume a clone is made of, and the snapshot of it a volume is made
\* from; src_vref.size is chosen at the call.
SourceVolume == [id |-> "v0"]
SourceSnapshot == [id |-> "s0"]

\* qsan_iscsi.py:267-271 and the like with the exception passed on as it is.
BackendFailureUnwrapped(res) == res

\* qsan_iscsi.py:267-271, 311-314, 549-553, 604-607, 632-635:
\* QSANApiException becomes VolumeBackendAPIException.
BackendFailure(res) ==
    IF res = "QSANApiException" THEN "VolumeBackendAPIException" ELSE res

\* The operation's client call was answered: it returns None.
LifecycleDone(op, pos) ==
    /\ dop = op
    /\ Answered(pos)
    /\ result \in {"parsed", "empty"}
    /\ DriverReturn(None, NoValue)
    /\ UNCHANGED <<ready, dop, calls, locals, stats, args, conf, volume>>

\* The operation's client call raised QSANApiException.
LifecycleFailed(op, pos) ==
    /\ dop = op
    /\ Answered(pos)
    /\ result = "QSANApiException"
    /\ DriverReturn(BackendFailure(result), NoValue)
    /\ UNCHANGED <<ready, dop, calls, locals, stats, args, conf, volume>>

\* qsan_iscsi.py:255-264
CreateVolume ==
    /\ DriverBegin("create_volume", "create_volume",
                   create_volume(conf.qsan_pool_name, GetVolumeName(volume),
                                 volume.size, conf.qsan_thin_provision))
    /\ UNCHANGED <<stats, args>>
\* qsan_iscsi.py:265-266, 271
CreateVolumeDone == LifecycleDone("create_volume", "create_volume")
\* qsan_iscsi.py:267-270
CreateVolumeFailed == LifecycleFailed("create_volume", "create_volume")

\* qsan_iscsi.py:302-309
ExtendVolume ==
    /\ \E new_size \in 1..MaxSize :
          /\ args' = [new_size |-> new_size]
          /\ DriverBegin("extend_volume", "extend_volume",
                         extend_volume(GetVolumeName(volume), new_size))
    /\ UNCHANGED stats
\* qsan_iscsi.py:309-310
ExtendVolumeDone == LifecycleDone("extend_volume", "extend_volume")
\* qsan_iscsi.py:311-314
ExtendVolumeFailed == LifecycleFailed("extend_volume", "extend_volume")

\* qsan_iscsi.py:540-547
CreateSnapshot ==
    /\ DriverBegin("create_snapshot", "create_snapshot",
                   create_snapshot(GetVolumeName(volume),
                                   GetSnapshotName(NewSnapshot)))
    /\ UNCHANGED <<stats, args>>
\* qsan_iscsi.py:547-548
CreateSnapshotDone == LifecycleDone("create_snapshot", "create_snapshot")
\* qsan_iscsi.py:549-553
CreateSnapshotFailed == LifecycleFailed("create_snapshot", "create_snapshot")

\* qsan_iscsi.py:591-601: the new volume is made from a snapshot of the
\* source volume.
CreateVolumeFromSnapshot ==
    /\ DriverBegin("create_volume_from_snapshot", "create_volume_from_snapshot",
                   create_volume_from_snapshot(GetVolumeName(SourceVolume),
                                               GetSnapshotName(SourceSnapshot),
                                               GetVolumeName(volume),
                                               volume.size))
    /\ UNCHANGED <<stats, args>>
\* qsan_iscsi.py:601-603, 609
CreateVolumeFromSnapshotDone ==
    LifecycleDone("create_volume_from_snapshot", "create_volume_from_snapshot")
\* qsan_iscsi.py:604-607
CreateVolumeFromSnapshotFailed ==
    LifecycleFailed("create_volume_from_snapshot", "create_volume_from_snapshot")

\* qsan_iscsi.py:626 with the test always true.
NeedsExtendAlways(size, src_size) == TRUE

\* qsan_iscsi.py:626: volume.size > src_vref.size
NeedsExtend(size, src_size) == size > src_size

\* qsan_iscsi.py:618-623
CreateClonedVolume ==
    /\ \E src_size \in 1..MaxSize :
          args' = [src_vref |-> [id |-> SourceVolume.id, size |-> src_size]]
    /\ DriverBegin("create_cloned_volume", "clone_volume",
                   clone_volume(GetVolumeName(SourceVolume),
                                GetVolumeName(volume)))
    /\ UNCHANGED stats

\* qsan_iscsi.py:623-627: the clone was made and is to be extended.
CreateClonedVolumeExtend ==
    /\ dop = "create_cloned_volume"
    /\ Answered("clone_volume")
    /\ result \in {"parsed", "empty"}
    /\ NeedsExtend(volume.size, args.src_vref.size)
    /\ DriverCall("extend_volume",
                  extend_volume(GetVolumeName(volume), volume.size))
    /\ UNCHANGED <<ready, dop, locals, dret, stats, args, conf, volume>>

\* qsan_iscsi.py:623-630, 637: the clone was made and is large enough.
CreateClonedVolumeCloned ==
    /\ dop = "create_cloned_volume"
    /\ ~NeedsExtend(volume.size, args.src_vref.size)
    /\ LifecycleDone("create_cloned_volume", "clone_volume")

\* qsan_iscsi.py:627-630, 637
CreateClonedVolumeExtended ==
    LifecycleDone("create_cloned_volume", "extend_volume")

\* qsan_iscsi.py:631-635: the clone request raised QSANApiException.
CreateClonedVolumeFailed ==
    LifecycleFailed("create_cloned_volume", "clone_volume")

\* qsan_iscsi.py:631-635: the extend request raised QSANApiException.
CreateClonedVolumeExtendFailed ==
    LifecycleFailed("create_cloned_volume", "extend_volume")

(***************************************************************************)
(* The client on its own: QSANClient.__init__ (common.py:42-66), then any  *)
(* sequence of login, logout and _request calls, one at a time.            *)
(***************************************************************************)
ClientInit ==
    /\ ClientFresh
    /\ retry_count \in 0..MaxRetry
    /\ array \in {EmptyArray, StockedArray}
    /\ conf = Configuration(<<>>, NoChap)
    /\ volume = NewVolume
    /\ CodecIdle
    /\ DriverFresh

ClientNext ==
    \/ RequestLoopExhausted /\ UNCHANGED <<conf, volume, kvars, dvars>>
    \/ RequestNoSession /\ UNCHANGED <<conf, volume, kvars, dvars>>
    \/ RequestAttemptOk /\ UNCHANGED <<conf, volume, kvars, dvars>>
    \/ RequestAttemptFail /\ UNCHANGED <<conf, volume, kvars, dvars>>
    \/ RequestSleep /\ UNCHANGED <<conf, volume, kvars, dvars>>
    \/ CallRequest /\ UNCHANGED <<conf, volume, kvars, dvars>>
    \/ ReturnRequest /\ UNCHANGED <<conf, volume, kvars, dvars>>
    \/ LoginOk /\ UNCHANGED <<conf, volume, kvars, dvars>>
    \/ LoginFail /\ UNCHANGED <<conf, volume, kvars, dvars>>
    \/ LogoutNoop /\ UNCHANGED <<conf, volume, kvars, dvars>>
    \/ LogoutBegin /\ UNCHANGED <<conf, volume, kvars, dvars>>
    \/ LogoutFinish /\ UNCHANGED <<conf, volume, kvars, dvars>>
    \/ CallLookup /\ UNCHANGED <<conf, volume, kvars, dvars>>
    \/ ReturnLookup /\ UNCHANGED <<conf, volume, kvars, dvars>>

SpecClient == ClientInit /\ [][ClientNext]_vars

(***************************************************************************)
(* The codec on its own: every configured portal list, IQN, LUN id and     *)
(* CHAP setting is encoded as create_export encodes it and decoded again.  *)
(***************************************************************************)
CodecChapSettings ==
    { NoChap,
      [enabled |-> TRUE, username |-> <<"u">>, password |-> <<"p">>],
      [enabled |-> TRUE, username |-> <<"u">>, password |-> <<"p", " ", "q">>],
      [enabled |-> TRUE, username |-> <<"u", " ", "v">>, password |-> <<"p">>],
      [enabled |-> TRUE, username |-> <<"u">>, password |-> NoneS] }

CodecInit ==
    /\ ClientFresh
    /\ retry_count = MaxRetry
    /\ array = EmptyArray
    /\ DriverFresh
    /\ conf \in { Configuration(p, c) : p \in PortalLists, c \in CodecChapSettings }
    /\ volume = NewVolume
    /\ cin \in [iqn : IqnSamples, lun_id : 0..MaxLun]
    /\ cpc = "start"
    /\ properties = [raised |-> None]

CodecNext ==
    \/ CodecEncode /\ UNCHANGED <<cvars, dvars>>
    \/ CodecDecode /\ UNCHANGED <<cvars, dvars>>

SpecCodec == CodecInit /\ [][CodecNext]_vars

(***************************************************************************)
(* The driver: QSANISCSIDriver.__init__, do_setup, then any sequence of    *)
(* export operations on one volume, against the array and a network that   *)
(* may fail.                                                               *)
(***************************************************************************)
ChapSettings ==
    { NoChap,
      [enabled |-> TRUE, username |-> <<"u">>, password |-> <<"p">>],
      [enabled |-> FALSE, username |-> <<"u">>, password |-> <<"p">>],
      [enabled |-> TRUE, username |-> NoneS, password |-> <<"p">>],
      [enabled |-> TRUE, username |-> <<"u">>, password |-> NoneS] }

DriverPortalLists == { <<>>, << <<"a">>, <<"b", ":", "7">> >> }

Init ==
    /\ ClientFresh
    /\ retry_count \in 1..MaxDriverRetry
    /\ array = EmptyArray
    /\ DriverFresh
    /\ conf \in { Configuration(p, c) : p \in DriverPortalLists, c \in ChapSettings }
    /\ volume = NewVolume
    /\ CodecIdle

Next ==
    \/ RequestAttemptOk /\ UNCHANGED <<conf, volume, kvars, dvars>>
    \/ RequestAttemptFail /\ UNCHANGED <<conf, volume, kvars, dvars>>
    \/ RequestSleep /\ UNCHANGED <<conf, volume, kvars, dvars>>
    \/ DoSetupOk /\ UNCHANGED <<kvars, stats, args>>
    \/ DoSetupFail /\ UNCHANGED <<kvars, stats, args>>
    \/ CreateExport /\ UNCHANGED <<kvars, stats, args>>
    \/ CreateExportTargetCreated /\ UNCHANGED <<kvars, stats, args>>
    \/ CreateExportMapped /\ UNCHANGED <<kvars, stats, args>>
    \/ CreateExportMappedSetChap /\ UNCHANGED <<kvars, stats, args>>
    \/ CreateExportChapSet /\ UNCHANGED <<kvars, stats, args>>
    \/ CreateExportFailed /\ UNCHANGED <<kvars, stats, args>>
    \/ EnsureExportSkip /\ UNCHANGED <<kvars, stats, args>>
    \/ EnsureExportCreate /\ UNCHANGED <<kvars, stats, args>>
    \/ RemoveExport /\ UNCHANGED <<kvars, stats, args>>
    \/ RemoveExportAbsent /\ UNCHANGED <<kvars, stats, args>>
    \/ RemoveExportDelete /\ UNCHANGED <<kvars, stats, args>>
    \/ RemoveExportDeleted /\ UNCHANGED <<kvars, stats, args>>
    \/ RemoveExportFailed /\ UNCHANGED <<kvars, stats, args>>

Spec == Init /\ [][Next]_vars

(***************************************************************************)
(* The driver's delete operations: do_setup, then any sequence of          *)
(* delete_volume and delete_snapshot calls for one volume and one of its   *)
(* snapshots, against an array that may or may not hold them.              *)
(***************************************************************************)
LifecycleArrays ==
    { [EmptyArray EXCEPT !.volumes = v, !.snapshots = n] :
        v \in SUBSET {GetVolumeName(NewVolume)},
        n \in SUBSET {<<GetVolumeName(NewVolume), GetSnapshotName(NewSnapshot)>>} }

LifecycleInit ==
    /\ ClientFresh
    /\ retry_count \in 1..MaxDriverRetry
    /\ array \in LifecycleArrays
    /\ DriverFresh
    /\ conf = Configuration(<<>>, NoChap)
    /\ volume = NewVolume
    /\ CodecIdle

LifecycleNext ==
    \/ RequestAttemptOk /\ UNCHANGED <<conf, volume, kvars, dvars>>
    \/ RequestAttemptFail /\ UNCHANGED <<conf, volume, kvars, dvars>>
    \/ RequestSleep /\ UNCHANGED <<conf, volume, kvars, dvars>>
    \/ DoSetupOk /\ UNCHANGED <<kvars, stats, args>>
    \/ DoSetupFail /\ UNCHANGED <<kvars, stats, args>>
    \/ DeleteVolume /\ UNCHANGED <<kvars, stats, args>>
    \/ DeleteVolumeAbsent /\ UNCHANGED <<kvars, stats, args>>
    \/ DeleteVolumeFound /\ UNCHANGED <<kvars, stats, args>>
    \/ DeleteVolumeDone /\ UNCHANGED <<kvars, stats, args>>
    \/ DeleteVolumeFailed /\ UNCHANGED <<kvars, stats, args>>
    \/ DeleteSnapshot /\ UNCHANGED <<kvars, stats, args>>
    \/ DeleteSnapshotAbsent /\ UNCHANGED <<kvars, stats, args>>
    \/ DeleteSnapshotFound /\ UNCHANGED <<kvars, stats, args>>
    \/ DeleteSnapshotDone /\ UNCHANGED <<kvars, stats, args>>
    \/ DeleteSnapshotFailed /\ UNCHANGED <<kvars, stats, args>>

SpecLifecycle == LifecycleInit /\ [][LifecycleNext]_vars

(***************************************************************************)
(* The driver's connection operations: do_setup, then any sequence of      *)
(* initialize_connection and terminate_connection calls for one volume,    *)
(* exported or not, against an array that may hold its target.             *)
(***************************************************************************)
ConnectionConf ==
    Configuration(<< <<"a">>, <<"b", ":", "7">> >>,
                  [enabled |-> TRUE, username |-> <<"u">>, password |-> <<"p">>])

\* The volume as create_export leaves it (qsan_iscsi.py:352-365).
ExportedVolume ==
    [NewVolume EXCEPT
        !.provider_location =
            ProviderLocation(GetIscsiPortals(ConnectionConf), <<"q", "1">>, 1),
        !.provider_auth = ProviderAuth(<<"u">>, <<"p">>)]

ConnectionArrays ==
    { EmptyArray,
      [EmptyArray EXCEPT !.targets = {GetTargetName(NewVolume)},
                         !.luns = {GetTargetName(NewVolume)}],
      [EmptyArray EXCEPT !.targets = {GetTargetName(NewVolume)},
                         !.luns = {GetTargetName(NewVolume)},
                         !.acl = {<<GetTargetName(NewVolume), <<"i", "1">>>>}] }

ConnectionInit ==
    /\ ClientFresh
    /\ retry_count \in 1..MaxDriverRetry
    /\ array \in ConnectionArrays
    /\ DriverFresh
    /\ conf = ConnectionConf
    /\ volume \in {NewVolume, ExportedVolume}
    /\ CodecIdle

ConnectionNext ==
    \/ RequestAttemptOk /\ UNCHANGED <<conf, volume, kvars, dvars>>
    \/ RequestAttemptFail /\ UNCHANGED <<conf, volume, kvars, dvars>>
    \/ RequestSleep /\ UNCHANGED <<conf, volume, kvars, dvars>>
    \/ DoSetupOk /\ UNCHANGED <<kvars, stats, args>>
    \/ DoSetupFail /\ UNCHANGED <<kvars, stats, args>>
    \/ InitializeConnectionNoInitiator /\ UNCHANGED kvars
    \/ InitializeConnection /\ UNCHANGED kvars
    \/ InitializeConnectionNoTarget /\ UNCHANGED kvars
    \/ InitializeConnectionAddInitiator /\ UNCHANGED kvars
    \/ InitializeConnectionAdded /\ UNCHANGED kvars
    \/ InitializeConnectionAddFailed /\ UNCHANGED kvars
    \/ TerminateConnectionNoInitiator /\ UNCHANGED kvars
    \/ TerminateConnection /\ UNCHANGED kvars
    \/ TerminateConnectionNoTarget /\ UNCHANGED kvars
    \/ TerminateConnectionRemoveInitiator /\ UNCHANGED kvars
    \/ TerminateConnectionRemoved /\ UNCHANGED kvars
    \/ TerminateConnectionRemoveFailed /\ UNCHANGED kvars

SpecConnection == ConnectionInit /\ [][ConnectionNext]_vars

(***************************************************************************)
(* The driver's setup check and statistics: do_setup, then any sequence of *)
(* check_for_setup_error and get_volume_stats calls, under configurations  *)
(* with and without the required options, against an array that may hold  *)
(* the pool.                                                               *)
(***************************************************************************)
SetupConfs ==
    { Configuration(<<>>, NoChap) } \cup
    { [Configuration(<<>>, NoChap) EXCEPT ![opt] = v] :
        opt \in RequiredOpts, v \in {NoneS, <<>>} }

SetupInit ==
    /\ ClientFresh
    /\ retry_count \in 1..MaxDriverRetry
    /\ array \in {EmptyArray, [EmptyArray EXCEPT !.pools = {PoolName}]}
    /\ DriverFresh
    /\ conf \in SetupConfs
    /\ volume = NewVolume
    /\ CodecIdle

SetupNext ==
    \/ RequestAttemptOk /\ UNCHANGED <<conf, volume, kvars, dvars>>
    \/ RequestAttemptFail /\ UNCHANGED <<conf, volume, kvars, dvars>>
    \/ RequestSleep /\ UNCHANGED <<conf, volume, kvars, dvars>>
    \/ DoSetupOk /\ UNCHANGED <<kvars, stats, args>>
    \/ DoSetupFail /\ UNCHANGED <<kvars, stats, args>>
    \/ CheckForSetupErrorMissing /\ UNCHANGED kvars
    \/ CheckForSetupError /\ UNCHANGED kvars
    \/ CheckForSetupErrorVerified /\ UNCHANGED kvars
    \/ CheckForSetupErrorFailed /\ UNCHANGED kvars
    \/ GetVolumeStatsCached /\ UNCHANGED kvars
    \/ GetVolumeStats /\ UNCHANGED kvars
    \/ GetVolumeStatsUpdated /\ UNCHANGED kvars
    \/ GetVolumeStatsFailed /\ UNCHANGED kvars
    \/ GetVolumeStatsNoPoolInfo /\ UNCHANGED kvars

SpecSetup == SetupInit /\ [][SetupNext]_vars

(***************************************************************************)
(* The driver's provisioning operations: do_setup, then any sequence of    *)
(* create_volume, extend_volume, create_snapshot,                          *)
(* create_volume_from_snapshot and create_cloned_volume calls for one new  *)
(* volume of any size, thin or thick, against an array that holds the      *)
(* pool, the source volume and its snapshot, and may hold the new volume.  *)
(***************************************************************************)
ProvisionArrays ==
    { [EmptyArray EXCEPT
          !.pools = {PoolName},
          !.volumes = v \cup {GetVolumeName(SourceVolume)},
          !.snapshots = {<<GetVolumeName(SourceVolume),
                           GetSnapshotName(SourceSnapshot)>>}] :
        v \in SUBSET {GetVolumeName(NewVolume)} }

ProvisionInit ==
    /\ ClientFresh
    /\ retry_count \in 1..MaxDriverRetry
    /\ array \in ProvisionArrays
    /\ DriverFresh
    /\ conf \in { [Configuration(<<>>, NoChap) EXCEPT !.qsan_thin_provision = thin] :
                    thin \in BOOLEAN }
    /\ volume \in { [NewVolume EXCEPT !.size = size] : size \in 1..MaxSize }
    /\ CodecIdle

ProvisionNext ==
    \/ RequestAttemptOk /\ UNCHANGED <<conf, volume, kvars, dvars>>
    \/ RequestAttemptFail /\ UNCHANGED <<conf, volume, kvars, dvars>>
    \/ RequestSleep /\ UNCHANGED <<conf, volume, kvars, dvars>>
    \/ DoSetupOk /\ UNCHANGED <<kvars, stats, args>>
    \/ DoSetupFail /\ UNCHANGED <<kvars, stats, args>>
    \/ CreateVolume /\ UNCHANGED kvars
    \/ CreateVolumeDone /\ UNCHANGED kvars
    \/ CreateVolumeFailed /\ UNCHANGED kvars
    \/ ExtendVolume /\ UNCHANGED kvars
    \/ ExtendVolumeDone /\ UNCHANGED kvars
    \/ ExtendVolumeFailed /\ UNCHANGED kvars
    \/ CreateSnapshot /\ UNCHANGED kvars
    \/ CreateSnapshotDone /\ UNCHANGED kvars
    \/ CreateSnapshotFailed /\ UNCHANGED kvars
    \/ CreateVolumeFromSnapshot /\ UNCHANGED kvars
    \/ CreateVolumeFromSnapshotDone /\ UNCHANGED kvars
    \/ CreateVolumeFromSnapshotFailed /\ UNCHANGED kvars
    \/ CreateClonedVolume /\ UNCHANGED kvars
    \/ CreateClonedVolumeExtend /\ UNCHANGED kvars
    \/ CreateClonedVolumeCloned /\ UNCHANGED kvars
    \/ CreateClonedVolumeExtended /\ UNCHANGED kvars
    \/ CreateClonedVolumeFailed /\ UNCHANGED kvars
    \/ CreateClonedVolumeExtendFailed /\ UNCHANGED kvars

SpecProvision == ProvisionInit /\ [][ProvisionNext]_vars

(***************************************************************************)
(* The driver's mutating operations together: do_setup, then one call of   *)
(* a lifecycle or export operation for a volume, from every state the      *)
(* array can be in: with or without the volume, its snapshot and its       *)
(* target.                                                                 *)
(***************************************************************************)
MutatingArrays ==
    { [EmptyArray EXCEPT
          !.pools = {PoolName},
          !.volumes = v \cup {GetVolumeName(SourceVolume)},
          !.snapshots = n \cup {<<GetVolumeName(SourceVolume),
                                  GetSnapshotName(SourceSnapshot)>>},
          !.targets = t,
          !.luns = t] :
        v \in SUBSET {GetVolumeName(NewVolume)},
        n \in SUBSET {<<GetVolumeName(NewVolume), GetSnapshotName(NewSnapshot)>>},
        t \in SUBSET {GetTargetName(NewVolume)} }

MutatingInit ==
    /\ ClientFresh
    /\ retry_count \in 1..MaxDriverRetry
    /\ array \in MutatingArrays
    /\ DriverFresh
    /\ conf \in { Configuration(<<>>, c) :
                    c \in { NoChap, [enabled |-> TRUE, username |-> <<"u">>,
                                     password |-> <<"p">>] } }
    /\ volume \in { [NewVolume EXCEPT !.size = size] : size \in 1..MaxSize }
    /\ CodecIdle

\* No operation has been called since do_setup.
FirstCall == dop = "do_setup"

MutatingNext ==
    \/ RequestAttemptOk /\ UNCHANGED <<conf, volume, kvars, dvars>>
    \/ RequestAttemptFail /\ UNCHANGED <<conf, volume, kvars, dvars>>
    \/ RequestSleep /\ UNCHANGED <<conf, volume, kvars, dvars>>
    \/ DoSetupOk /\ UNCHANGED <<kvars, stats, args>>
    \/ DoSetupFail /\ UNCHANGED <<kvars, stats, args>>
    \/ FirstCall /\ CreateExport /\ UNCHANGED <<kvars, stats, args>>
    \/ FirstCall /\ RemoveExport /\ UNCHANGED <<kvars, stats, args>>
    \/ FirstCall /\ DeleteVolume /\ UNCHANGED <<kvars, stats, args>>
    \/ FirstCall /\ DeleteSnapshot /\ UNCHANGED <<kvars, stats, args>>
    \/ CreateExportTargetCreated /\ UNCHANGED <<kvars, stats, args>>
    \/ CreateExportMapped /\ UNCHANGED <<kvars, stats, args>>
    \/ CreateExportMappedSetChap /\ UNCHANGED <<kvars, stats, args>>
    \/ CreateExportChapSet /\ UNCHANGED <<kvars, stats, args>>
    \/ CreateExportFailed /\ UNCHANGED <<kvars, stats, args>>
    \/ RemoveExportAbsent /\ UNCHANGED <<kvars, stats, args>>
    \/ RemoveExportDelete /\ UNCHANGED <<kvars, stats, args>>
    \/ RemoveExportDeleted /\ UNCHANGED <<kvars, stats, args>>
    \/ RemoveExportFailed /\ UNCHANGED <<kvars, stats, args>>
    \/ DeleteVolumeAbsent /\ UNCHANGED <<kvars, stats, args>>
    \/ DeleteVolumeFound /\ UNCHANGED <<kvars, stats, args>>
    \/ DeleteVolumeDone /\ UNCHANGED <<kvars, stats, args>>
    \/ DeleteVolumeFailed /\ UNCHANGED <<kvars, stats, args>>
    \/ DeleteSnapshotAbsent /\ UNCHANGED <<kvars, stats, args>>
    \/ DeleteSnapshotFound /\ UNCHANGED <<kvars, stats, args>>
    \/ DeleteSnapshotDone /\ UNCHANGED <<kvars, stats, args>>
    \/ DeleteSnapshotFailed /\ UNCHANGED <<kvars, stats, args>>
    \/ FirstCall /\ CreateVolume /\ UNCHANGED kvars
    \/ FirstCall /\ ExtendVolume /\ UNCHANGED kvars
    \/ FirstCall /\ CreateSnapshot /\ UNCHANGED kvars
    \/ FirstCall /\ CreateVolumeFromSnapshot /\ UNCHANGED kvars
    \/ FirstCall /\ CreateClonedVolume /\ UNCHANGED kvars
    \/ CreateVolumeDone /\ UNCHANGED kvars
    \/ CreateVolumeFailed /\ UNCHANGED kvars
    \/ ExtendVolumeDone /\ UNCHANGED kvars
    \/ ExtendVolumeFailed /\ UNCHANGED kvars
    \/ CreateSnapshotDone /\ UNCHANGED kvars
    \/ CreateSnapshotFailed /\ UNCHANGED kvars
    \/ CreateVolumeFromSnapshotDone /\ UNCHANGED kvars
    \/ CreateVolumeFromSnapshotFailed /\ UNCHANGED kvars
    \/ CreateClonedVolumeExtend /\ UNCHANGED kvars
    \/ CreateClonedVolumeCloned /\ UNCHANGED kvars
    \/ CreateClonedVolumeExtended /\ UNCHANGED kvars
    \/ CreateClonedVolumeFailed /\ UNCHANGED kvars
    \/ CreateClonedVolumeExtendFailed /\ UNCHANGED kvars

SpecMutating == MutatingInit /\ [][MutatingNext]_vars

(***************************************************************************)
(* _request under a scheduler that lets a started call run: the client on  *)
(* its own, where a call that can take a step of _request (an HTTP         *)
(* attempt, which returns or times out, or the one-second sleep)           *)
(* eventually takes it.                                                    *)
(***************************************************************************)
RequestInit ==
    /\ ClientFresh
    /\ retry_count \in 0..MaxRetry
    /\ array \in {EmptyArray, StockedArray}
    /\ conf = Configuration(<<>>, NoChap)
    /\ volume = NewVolume
    /\ CodecIdle
    /\ DriverFresh

RequestStep ==
    /\ \/ RequestLoopExhausted
       \/ RequestNoSession
       \/ RequestAttemptOk
       \/ RequestAttemptFail
       \/ RequestSleep
    /\ UNCHANGED <<conf, volume, kvars, dvars>>

RequestNext ==
    \/ RequestLoopExhausted /\ UNCHANGED <<conf, volume, kvars, dvars>>
    \/ RequestNoSession /\ UNCHANGED <<conf, volume, kvars, dvars>>
    \/ RequestAttemptOk /\ UNCHANGED <<conf, volume, kvars, dvars>>
    \/ RequestAttemptFail /\ UNCHANGED <<conf, volume, kvars, dvars>>
    \/ RequestSleep /\ UNCHANGED <<conf, volume, kvars, dvars>>
    \/ CallRequest /\ UNCHANGED <<conf, volume, kvars, dvars>>
    \/ ReturnRequest /\ UNCHANGED <<conf, volume, kvars, dvars>>
    \/ LoginOk /\ UNCHANGED <<conf, volume, kvars, dvars>>
    \/ LoginFail /\ UNCHANGED <<conf, volume, kvars, dvars>>
    \/ CallLookup /\ UNCHANGED <<conf, volume, kvars, dvars>>
    \/ ReturnLookup /\ UNCHANGED <<conf, volume, kvars, dvars>>

SpecRequestFair == RequestInit /\ [][RequestNext]_vars /\ WF_vars(RequestStep)

(***************************************************************************)
(* Properties of _request                                                  *)
(***************************************************************************)
AllConnectivity(t) == \A i \in 1..Len(t) : t[i] \in ConnectivityErrors
Front(t) == SubSeq(t, 1, Len(t) - 1)
Last(t) == t[Len(t)]
Succeeded(t) == t # <<>> /\ Last(t) \in {"ok_body", "ok_empty"}

\* C1: with retry_count = N >= 1, a _request whose every HTTP attempt fails
\* with a connectivity error never issues more than N attempts, and when it
\* ends it has issued exactly N attempts and raises QSANApiException.
C1_RetryBudgetExhausted ==
    (retry_count >= 1 /\ trace # <<>> /\ AllConnectivity(trace)) =>
        /\ Len(trace) <= retry_count
        /\ rpc = "done" =>
              /\ Len(trace) = retry_count
              /\ result = "QSANApiException"

C1_Witness ==
    /\ rpc = "done"
    /\ retry_count = MaxRetry
    /\ Len(trace) = MaxRetry
    /\ AllConnectivity(trace)
    /\ result = "QSANApiException"

\* C2: a _request whose attempts 1..k fail with connectivity errors (k < N)
\* and whose attempt k+1 succeeds returns that response (its parsed body, or
\* None for an empty body) from loop index k after k+1 attempts, and once it
\* has ended it issues no further attempt.
C2_SuccessAfterRetries ==
    /\ [](  (rpc = "done" /\ Succeeded(trace) /\ AllConnectivity(Front(trace)))
            => /\ result = (IF Last(trace) = "ok_body" THEN "parsed" ELSE "empty")
               /\ Len(trace) = attempt + 1
               /\ Len(trace) <= retry_count )
    /\ [][ rpc = "done" => trace' = trace ]_vars

C2_Witness ==
    /\ rpc = "done"
    /\ retry_count = MaxRetry
    /\ Len(trace) = MaxRetry
    /\ AllConnectivity(Front(trace))
    /\ Last(trace) = "ok_body"
    /\ result = "parsed"

\* C3: when the first response to a _request carries a 4xx/5xx status, the
\* call raises QSANApiException after exactly one attempt and no sleep; only
\* connection-level failures are followed by another attempt.
C3_NoRetryOnHttpStatus ==
    /\ (rpc = "done" /\ retry_count >= 1 /\ trace # <<>> /\ trace[1] = "HTTPError")
          => (Len(trace) = 1 /\ sleeps = 0 /\ result = "QSANApiException")
    /\ \A i \in 1..(Len(trace) - 1) : trace[i] \in ConnectivityErrors

\* C4: every _request, in whatever state the client is, ends with the parsed
\* result, with an empty result, or with QSANApiException.
C4_RequestOutcome ==
    rpc = "done" => result \in {"parsed", "empty", "QSANApiException"}

(***************************************************************************)
(* Properties of the codec                                                 *)
(***************************************************************************)
DecodedPortals(p) ==
    IF Len(p.target_portals) > 1 THEN p.target_portals ELSE <<p.target_portal>>

RoundTrips ==
    /\ properties.raised = None
    /\ DecodedPortals(properties) = GetIscsiPortals(conf)
    /\ properties.target_portal = GetIscsiPortals(conf)[1]
    /\ properties.target_iqn = cin.iqn
    /\ properties.target_lun = cin.lun_id

SeparatorFree ==
    /\ \A i \in 1..Len(GetIscsiPortals(conf)) :
          /\ ~Contains(GetIscsiPortals(conf)[i], " ")
          /\ ~Contains(GetIscsiPortals(conf)[i], ";")
    /\ ~Contains(cin.iqn, " ")

\* C5 as stated: for every non-empty portal list, non-empty IQN and LUN >= 0,
\* decoding the encoded provider_location gives back the portals in order,
\* the IQN and the LUN.
C5_RoundTripAnyStrings == cpc = "decoded" => RoundTrips

\* C5 amended: the round trip holds whenever no portal holds a space or a
\* semicolon and the IQN holds no space.
C5_RoundTrip == (cpc = "decoded" /\ SeparatorFree) => RoundTrips

C5_Witness ==
    /\ cpc = "decoded"
    /\ SeparatorFree
    /\ Len(GetIscsiPortals(conf)) = MaxPortals
    /\ cin.lun_id >= 10
    /\ Contains(cin.iqn, ";")
    /\ RoundTrips

(***************************************************************************)
(* Properties of the export operations, under Spec.                        *)
(***************************************************************************)
Kinds(cs) == [i \in 1..Len(cs) |-> cs[i].kind]
IsPrefix(a, b) == Len(a) <= Len(b) /\ a = SubSeq(b, 1, Len(a))
NoTeardown(cs) ==
    \A i \in 1..Len(cs) : cs[i].kind \notin {"delete_iscsi_target", "unmap_volume"}
Finished(op) == dpc = "idle" /\ dop = op /\ dret.op = op

\* C6: a create_export call made while the target named target-<volume id>
\* exists on the array does not send a request to create that target.
C6_NoSecondCreation ==
    (rpc = "loop" /\ caller = "driver" /\ dop = "create_export"
        /\ request.kind = "create_iscsi_target" /\ trace = <<>>)
        => request.name \notin array.targets

\* C7: when a remote step of create_export fails with QSANApiException, the
\* operation raises VolumeBackendAPIException naming the volume, the failed
\* step is the last one issued, no delete or unmap request is issued, and a
\* target created before the failure is still on the array.
C7_FailureNoRollback ==
    (Finished("create_export") /\ result = "QSANApiException") =>
        /\ dret.raised = "VolumeBackendAPIException"
        /\ dret.data = GetVolumeName(volume)
        /\ request = Last(calls)
        /\ IsPrefix(Kinds(calls), <<"create_iscsi_target", "map_volume_to_target",
                                    "set_target_chap">>)
        /\ NoTeardown(calls)
        /\ Len(calls) >= 2 => GetTargetName(volume) \in array.targets

C7_Witness ==
    /\ Finished("create_export")
    /\ result = "QSANApiException"
    /\ Kinds(calls) = <<"create_iscsi_target", "map_volume_to_target",
                        "set_target_chap">>
    /\ dret.raised = "VolumeBackendAPIException"
    /\ GetTargetName(volume) \in array.targets
    /\ GetTargetName(volume) \in array.luns

\* C8: ensure_export on a volume whose provider_location is set sends no
\* request and changes neither the array, the volume record nor the client,
\* and raises nothing.
C8_EnsureExportNoop ==
    [][ (DriverIdle /\ Truthy(volume.provider_location) /\ dop' = "ensure_export") =>
            /\ calls' = <<>>
            /\ dpc' = "idle"
            /\ rpc' = "idle"
            /\ array' = array
            /\ volume' = volume
            /\ trace' = trace
            /\ <<session, session_token>>' = <<session, session_token>>
            /\ dret'.raised = None ]_vars

C8_Witness ==
    /\ Finished("ensure_export")
    /\ Truthy(volume.provider_location)
    /\ calls = <<>>
    /\ dret.raised = None
    /\ GetTargetName(volume) \notin array.targets

\* C9: ensure_export on a volume without provider_location that completes
\* hands its caller the provider_location and provider_auth that
\* create_export returns for the export it made.
C9_EnsureExportDelivers ==
    (Finished("ensure_export") /\ calls # <<>> /\ dret.raised = None) =>
        /\ dret.value.provider_location =
               ProviderLocation(GetIscsiPortals(conf), target_iqn, lun_id)
        /\ dret.value.provider_auth =
               (IF ChapConfigured(conf)
                THEN ProviderAuth(conf.qsan_chap_username, conf.qsan_chap_password)
                ELSE NoneS)

\* C10: a remove_export whose lookup of target-<volume id> finds nothing
\* sends no delete request and raises nothing.
C10_RemoveAbsent ==
    (dop = "remove_export" /\ target_info = NoTarget) =>
        /\ \A i \in 1..Len(calls) : calls[i].kind # "delete_iscsi_target"
        /\ Finished("remove_export") =>
              /\ dret.raised = None
              /\ Kinds(calls) = <<"get_iscsi_targets">>

\* A second remove_export after one that deleted the target.
C10_Witness ==
    /\ Finished("remove_export")
    /\ target_info = NoTarget
    /\ result = "parsed"
    /\ response.items = <<>>
    /\ Truthy(volume.provider_location)
    /\ GetTargetName(volume) \notin array.targets
    /\ dret.raised = None
    /\ Kinds(calls) = <<"get_iscsi_targets">>

\* C11: a remove_export whose lookup finds the target issues, after the
\* lookup, exactly one delete-target request, for the id of the found target,
\* and no unmap request; it raises VolumeBackendAPIException when that delete
\* fails with QSANApiException and nothing otherwise.
C11_RemoveFound ==
    (dop = "remove_export" /\ target_info # NoTarget) =>
        /\ dpc \in {"delete_iscsi_target", "idle"}
        /\ Kinds(calls) = <<"get_iscsi_targets", "delete_iscsi_target">>
        /\ calls[2].target_id = target_info.id
        /\ target_info.id = ArrayTargetId(GetTargetName(volume))
        /\ Finished("remove_export") =>
              dret.raised = (IF result = "QSANApiException"
                             THEN "VolumeBackendAPIException" ELSE None)

C11_Witness ==
    /\ Finished("remove_export")
    /\ target_info # NoTarget
    /\ Kinds(calls) = <<"get_iscsi_targets", "delete_iscsi_target">>
    /\ result = "QSANApiException"
    /\ dret.raised = "VolumeBackendAPIException"
    /\ GetTargetName(volume) \in array.targets

\* C13: create_export sends the CHAP-set request, and returns provider_auth
\* 'CHAP <username> <password>', exactly when CHAP is enabled and username
\* and password are both configured; otherwise it sends no CHAP-set request,
\* returns no provider_auth and completes after the map step.
ChapOn ==
    /\ conf.qsan_chap_enabled
    /\ conf.qsan_chap_username \notin {NoneS, <<>>}
    /\ conf.qsan_chap_password \notin {NoneS, <<>>}
SetsChap(cs) == \E i \in 1..Len(cs) : cs[i].kind = "set_target_chap"

C13_ChapGating ==
    dop = "create_export" =>
        /\ SetsChap(calls) => ChapOn
        /\ (Finished("create_export") /\ dret.raised = None) =>
              IF ChapOn
              THEN /\ Len(calls) = 3
                   /\ calls[3] = [kind |-> "set_target_chap",
                                  target_id |-> target_id,
                                  username |-> conf.qsan_chap_username,
                                  password |-> conf.qsan_chap_password]
                   /\ dret.value.provider_auth =
                          <<"C", "H", "A", "P", " ">> \o conf.qsan_chap_username
                              \o <<" ">> \o conf.qsan_chap_password
              ELSE /\ Kinds(calls) = <<"create_iscsi_target", "map_volume_to_target">>
                   /\ dret.value.provider_auth = NoneS

\* CHAP enabled with the username unset: the export completes without CHAP.
C13_Witness ==
    /\ Finished("create_export")
    /\ dret.raised = None
    /\ conf.qsan_chap_enabled
    /\ conf.qsan_chap_username = NoneS
    /\ Kinds(calls) = <<"create_iscsi_target", "map_volume_to_target">>
    /\ dret.value.provider_auth = NoneS
    /\ Truthy(dret.value.provider_location)

(***************************************************************************)
(* Properties of the codec, under SpecCodec (continued).                   *)
(***************************************************************************)
Absent(x) == x = NoneS

\* C14: decoding a location with n >= 2 portals gives target_portals,
\* target_iqns and target_luns of length n: the portals in order, and the
\* decoded IQN and LUN n times; decoding a location with one portal gives
\* none of the three.
C14_MultipathExpansion ==
    (cpc = "decoded" /\ properties.raised = None) =>
        LET n == Len(GetIscsiPortals(conf))
            p == properties
        IN  /\ SeparatorFree =>
                  IF n >= 2
                  THEN /\ p.target_portals = GetIscsiPortals(conf)
                       /\ p.target_iqns = [i \in 1..n |-> cin.iqn]
                       /\ p.target_luns = [i \in 1..n |-> cin.lun_id]
                  ELSE /\ Absent(p.target_portals)
                       /\ Absent(p.target_iqns)
                       /\ Absent(p.target_luns)
            /\ IF Absent(p.target_portals)
               THEN Absent(p.target_iqns) /\ Absent(p.target_luns)
               ELSE /\ Len(p.target_portals) >= 2
                    /\ p.target_portals[1] = p.target_portal
                    /\ p.target_iqns = [i \in 1..Len(p.target_portals) |-> p.target_iqn]
                    /\ p.target_luns = [i \in 1..Len(p.target_portals) |-> p.target_lun]

C14_Witness ==
    /\ cpc = "decoded"
    /\ properties.raised = None
    /\ SeparatorFree
    /\ Len(GetIscsiPortals(conf)) = 2
    /\ properties.target_portals = GetIscsiPortals(conf)
    /\ properties.target_iqns = <<cin.iqn, cin.iqn>>
    /\ properties.target_luns = <<cin.lun_id, cin.lun_id>>
    /\ cin.lun_id > 0

(***************************************************************************)
(* Properties of login and logout, under SpecClient.                       *)
(***************************************************************************)
\* logout, or login, has just returned.
LogoutReturned == rpc = "idle" /\ ret.op = "logout"
LogoutRan == LogoutReturned /\ ret.outcome # "noop"
LoginStep == ret'.op = "login" /\ ret' # ret

\* C15: a logout that finds an active token calls _request once, for the
\* logout endpoint, raises nothing whatever that call did, and leaves token
\* and session cleared.
C15_LogoutBestEffort ==
    /\ [](LogoutRan =>
             /\ ret.outcome = "ok"
             /\ session_token = None
             /\ session = None
             /\ caller = "logout"
             /\ request.kind = "logout"
             /\ result \in {"parsed", "empty", "QSANApiException"}
             /\ retry_count >= 1 => Len(trace) >= 1)
    /\ [][ (rpc # "idle" /\ caller = "logout") =>
               /\ caller' = "logout"
               /\ request' = request
               /\ trace' = trace \/ Front(trace') = trace ]_vars

\* The logout request failed on every attempt.
C15_Witness ==
    /\ LogoutRan
    /\ retry_count = MaxRetry
    /\ Len(trace) = MaxRetry
    /\ result = "QSANApiException"
    /\ ret.outcome = "ok"
    /\ session_token = None
    /\ session = None

\* C16 as stated: after any logout returns, token and session are both None.
C16_LogoutClearsBoth ==
    LogoutReturned => (session_token = None /\ session = None)

\* C16 amended: after any logout returns the token is None; the session is
\* None too when logout found an active token, and is left as it was (set,
\* after a login that failed or returned no token) when it found none.
C16_LogoutClears ==
    /\ [](LogoutReturned =>
             /\ session_token = None
             /\ ret.outcome # "noop" => session = None)
    /\ [][ (ret'.op = "logout" /\ ret'.outcome = "noop") => session' = session ]_vars

\* Logout after a login and a request, the logout request answered at the
\* second attempt.
C16_Witness ==
    /\ LogoutRan
    /\ Len(trace) = 2
    /\ Last(trace) \in {"ok_body", "ok_empty"}
    /\ session_token = None
    /\ session = None

\* C17: a logout that finds no active token starts no request, changes nothing
\* and raises nothing.
C17_LogoutNoop ==
    /\ [][ (rpc = "idle" /\ session_token = None) =>
               ~(rpc' = "loop" /\ caller' = "logout") ]_vars
    /\ [][ (ret'.op = "logout" /\ ret'.outcome = "noop" /\ ret' # ret) =>
               /\ session = None \/ session_token = None
               /\ UNCHANGED <<session, session_token, retry_count, rpc, caller,
                              request, attempt, trace, sleeps, auth, result,
                              response, array>> ]_vars

\* A second logout after one that ran.
C17_Witness ==
    /\ LogoutReturned
    /\ ret.outcome = "noop"
    /\ caller = "logout"
    /\ session = None
    /\ session_token = None

\* C18: one login issues exactly one HTTP request, for every retry_count; when
\* that request fails, login raises QSANApiException at once, without a
\* second request and without going through the retry loop or its sleep.
C18_LoginNotRetried ==
    /\ [](ret.op = "login" =>
             /\ Len(ret.posts) = 1
             /\ ret.posts[1] \in TransportErrors <=> ret.outcome = "QSANApiException"
             /\ ret.posts[1] = "ok" <=> ret.outcome = "ok")
    /\ [][ LoginStep => UNCHANGED <<rpc, attempt, trace, sleeps, array>> ]_vars

C18_Witness ==
    /\ ret.op = "login"
    /\ ret.outcome = "QSANApiException"
    /\ ret.posts = <<"HTTPError">>
    /\ retry_count = MaxRetry
    /\ rpc = "idle"
    /\ session_token = None

LookupKinds == {"get_volume", "get_snapshot", "get_iscsi_targets"}
LookupReturned == rpc = "idle" /\ ret.op \in LookupKinds

\* C20: get_volume, get_snapshot and get_iscsi_target_by_name never raise
\* QSANApiException: when their request ends in it they return None;
\* get_iscsi_target_by_name returns the first element of a non-empty list and
\* None for an empty one, the other two return what the request returned.
C20_LookupsSwallow ==
    LookupReturned =>
        /\ ret.outcome # "QSANApiException"
        /\ result = "QSANApiException" =>
              /\ ret.outcome = "returned"
              /\ ret.value = (IF ret.op = "get_iscsi_targets" THEN NoTarget ELSE NoInfo)
        /\ (result = "parsed" /\ ret.op = "get_iscsi_targets") =>
              /\ ret.outcome = "returned"
              /\ ret.value = (IF response.items = <<>> THEN NoTarget
                              ELSE response.items[1])
        /\ (result = "parsed" /\ ret.op # "get_iscsi_targets") =>
              /\ ret.outcome = "returned"
              /\ ret.value = response

\* A lookup of a volume the array holds, lost to the network on every attempt.
C20_Witness ==
    /\ LookupReturned
    /\ ret.op = "get_volume"
    /\ GetVolumeName(NewVolume) \in array.volumes
    /\ result = "QSANApiException"
    /\ Len(trace) = MaxRetry
    /\ ret.outcome = "returned"
    /\ ret.value = NoInfo

(***************************************************************************)
(* Properties of the delete operations, under SpecLifecycle.               *)
(***************************************************************************)
\* A delete operation looks the resource up first; past the lookup it has
\* issued no delete when the lookup gave None, and raises nothing then, and
\* exactly one delete, the given one, when the lookup gave a record.
DeletesOnce(op, lookup, delete) ==
    dop = op =>
        /\ calls # <<>>
        /\ calls[1] = lookup
        /\ dpc = lookup.kind => calls = <<lookup>>
        /\ dpc # lookup.kind =>
              IF vol_info = NoInfo
              THEN /\ calls = <<lookup>>
                   /\ Finished(op)
                   /\ dret.raised = None
              ELSE calls = <<lookup, delete>>

\* C12: delete_volume and delete_snapshot first look the resource up; when
\* the lookup returns absent they issue no delete and raise nothing, when it
\* returns a record they issue exactly one delete, for volume-<id>
\* respectively snapshot-<id>.
C12_IdempotentDelete ==
    /\ DeletesOnce("delete_volume",
                   [kind |-> "get_volume", name |-> <<"volume", volume.id>>],
                   [kind |-> "delete_volume", name |-> <<"volume", volume.id>>])
    /\ DeletesOnce("delete_snapshot",
                   [kind |-> "get_snapshot", volume |-> <<"volume", volume.id>>,
                    name |-> <<"snapshot", NewSnapshot.id>>],
                   [kind |-> "delete_snapshot", volume |-> <<"volume", volume.id>>,
                    name |-> <<"snapshot", NewSnapshot.id>>])

\* A delete_snapshot of a snapshot the array does not hold, after a
\* delete_volume that deleted the volume.
C12_Witness ==
    /\ Finished("delete_snapshot")
    /\ vol_info = NoInfo
    /\ Len(calls) = 1
    /\ dret.raised = None
    /\ Len(trace) = MaxDriverRetry
    /\ array.snapshots = {}
    /\ array.volumes = {}

(***************************************************************************)
(* Properties of _request, under SpecClient (continued).                   *)
(***************************************************************************)
Failures(t) == Cardinality({ i \in 1..Len(t) : t[i] \in TransportErrors })

\* C30: every failed attempt of _request but the last one the budget allows
\* is followed by one sleep of one second before the next attempt, and the
\* last one by none: a call that fails on all N = retry_count attempts has
\* slept N - 1 seconds, a call answered at attempt k + 1 has slept k seconds.
C30_BackoffPlacement ==
    /\ [](rpc = "loop" => sleeps = Len(trace))
    /\ [](rpc = "sleep" => (sleeps = Len(trace) - 1 /\ Len(trace) < retry_count))
    /\ []((rpc = "done" /\ trace # <<>>) =>
             /\ sleeps = Len(trace) - 1
             /\ result = "QSANApiException" =>
                   (Len(trace) = retry_count /\ sleeps = retry_count - 1)
             /\ Succeeded(trace) => sleeps = Failures(trace))
    /\ [][ sleeps' # sleeps =>
               \/ sleeps' = 0
               \/ /\ sleeps' = sleeps + 1
                  /\ trace # <<>>
                  /\ Last(trace) \in TransportErrors
                  /\ trace' = trace ]_vars

\* Two failures, two sleeps, then the answer at the third attempt.
C30_Witness ==
    /\ rpc = "done"
    /\ retry_count = MaxRetry
    /\ Len(trace) = MaxRetry
    /\ Succeeded(trace)
    /\ sleeps = MaxRetry - 1

(***************************************************************************)
(* Properties of the portal list, under SpecCodec.                         *)
(***************************************************************************)
HasColon(p) == \E j \in 1..Len(p) : p[j] = ":"
ConfiguredOrManagement ==
    IF Len(conf.qsan_iscsi_portals) = 0 THEN <<conf.qsan_management_ip>>
    ELSE conf.qsan_iscsi_portals
ExpectedPortals ==
    [i \in 1..Len(ConfiguredOrManagement) |->
        IF HasColon(ConfiguredOrManagement[i]) THEN ConfiguredOrManagement[i]
        ELSE ConfiguredOrManagement[i] \o <<":", "3", "2", "6", "0">>]
StartsWith(str, prefix) ==
    Len(prefix) <= Len(str) /\ SubSeq(str, 1, Len(prefix)) = prefix

CreatingExport == dop \in {"create_export", "ensure_export"} /\ calls # <<>>
IssuesStep(n) == CreatingExport /\ Len(calls) = n - 1 /\ Len(calls') = n

\* C29: the remote steps of one create_export are create target, map LUN and
\* then possibly set CHAP, in that order; the map request is issued only after
\* the creation was answered and carries the id of the created target, the
\* CHAP request only after the map was answered; a location is returned only
\* after the last issued step was answered; and the array changes only while
\* a request of a running driver operation is under way.
C29_StepOrder ==
    /\ [](CreatingExport =>
             /\ IsPrefix(Kinds(calls), <<"create_iscsi_target",
                                         "map_volume_to_target", "set_target_chap">>)
             /\ calls[1].name = <<"target", volume.id>>
             /\ Len(calls) >= 2 =>
                   /\ calls[2].target_id = ArrayTargetId(calls[1].name)
                   /\ calls[2].volume = <<"volume", volume.id>>
             /\ Len(calls) >= 3 => calls[3].target_id = calls[2].target_id)
    /\ []((Finished("create_export") /\ dret.raised = None) =>
             /\ Len(calls) >= 2
             /\ request = Last(calls)
             /\ result \in {"parsed", "empty"}
             /\ dret.value.provider_location # NoneS
             /\ <<"target", volume.id>> \in array.targets
             /\ <<"target", volume.id>> \in array.luns)
    /\ [][ IssuesStep(2) =>
               /\ rpc = "done" /\ result = "parsed"
               /\ request = calls[1]
               /\ calls'[2].target_id = response.id ]_vars
    /\ [][ IssuesStep(3) =>
               /\ rpc = "done" /\ result = "parsed"
               /\ request = calls[2] ]_vars
    /\ [][ array' # array =>
               /\ rpc = "loop" /\ caller = "driver" /\ dpc # "idle"
               /\ request = Last(calls) ]_vars

\* An export created in three answered steps, each at its second attempt.
C29_Witness ==
    /\ Finished("create_export")
    /\ dret.raised = None
    /\ Len(calls) = 3
    /\ Len(trace) = MaxDriverRetry
    /\ <<"target", volume.id>> \in array.chap
    /\ Truthy(volume.provider_location)

(***************************************************************************)
(* Properties of the connection operations, under SpecConnection.          *)
(***************************************************************************)
TargetFound == rpc = "done" /\ result = "parsed" /\ Len(response.items) > 0
IssuesAcl(op) == dop = op /\ Len(calls) = 1 /\ Len(calls') = 2
ExpectedAcl(kind) ==
    [kind |-> kind, target_id |-> <<"tid", volume.id>>,
     initiator |-> args.connector.initiator]

\* C21: terminate_connection returns normally whatever the target lookup and
\* the ACL removal came to and whatever the connector holds; it sends the ACL
\* removal only when the connector carries an initiator and the lookup found
\* the target, and no request at all without an initiator.
C21_TerminateNeverFails ==
    /\ [](Finished("terminate_connection") =>
             /\ dret.raised = None
             /\ dret.value = NoValue
             /\ IsPrefix(Kinds(calls), <<"get_iscsi_targets",
                                         "remove_initiator_from_target">>)
             /\ calls # <<>> <=> HasInitiator(args.connector)
             /\ Len(calls) = 2 <=>
                   (HasInitiator(args.connector) /\ target_info # NoTarget)
             /\ Len(calls) = 2 =>
                   calls[2] = ExpectedAcl("remove_initiator_from_target"))
    /\ [][ IssuesAcl("terminate_connection") =>
               /\ TargetFound
               /\ HasInitiator(args.connector)
               /\ calls'[2].kind = "remove_initiator_from_target" ]_vars
    /\ [][ (dop = "terminate_connection" /\ dpc # "idle" /\ dpc' = "idle") =>
               dret'.raised = None ]_vars

\* The ACL removal failed with the API error at every attempt, and the call
\* returned.
C21_Witness ==
    /\ Finished("terminate_connection")
    /\ Len(calls) = 2
    /\ result = "QSANApiException"
    /\ Len(trace) = MaxDriverRetry
    /\ dret.raised = None

\* C22: for a volume with a provider_location, a connector with an initiator
\* and a target the lookup found, initialize_connection sends one ACL-add
\* request for that initiator and returns the iscsi descriptor decoded from
\* provider_location, whether that request succeeded or raised the API error.
C22_AclErrorSwallowed ==
    (/\ Finished("initialize_connection")
     /\ Truthy(volume.provider_location)
     /\ HasInitiator(args.connector)
     /\ target_info # NoTarget) =>
        /\ Kinds(calls) = <<"get_iscsi_targets", "add_initiator_to_target">>
        /\ calls[2] = ExpectedAcl("add_initiator_to_target")
        /\ request = calls[2]
        /\ result \in {"parsed", "empty", "QSANApiException"}
        /\ dret.raised = None
        /\ dret.value.driver_volume_type = "iscsi"
        /\ dret.value.data = GetIscsiProperties(volume)
        /\ dret.value.data.target_portal = <<"a", ":", "3", "2", "6", "0">>
        /\ dret.value.data.target_iqn = <<"q", "1">>
        /\ dret.value.data.target_lun = 1
        /\ dret.value.data.auth_method = <<"C", "H", "A", "P">>

\* The ACL-add raised the API error and the descriptor was returned.
C22_Witness ==
    /\ Finished("initialize_connection")
    /\ Len(calls) = 2
    /\ result = "QSANApiException"
    /\ dret.raised = None
    /\ dret.value.data.target_portals =
           << <<"a", ":", "3", "2", "6", "0">>, <<"b", ":", "7">> >>

(***************************************************************************)
(* Properties of the setup check and the statistics, under SpecSetup.      *)
(***************************************************************************)
Unset(x) == x = NoneS \/ x = <<>>
AnyRequiredUnset ==
    \/ Unset(conf.qsan_management_ip)
    \/ Unset(conf.qsan_login)
    \/ Unset(conf.qsan_password)
    \/ Unset(conf.qsan_pool_name)

\* C26: check_for_setup_error with a required option (management address,
\* login, password, pool name) unset raises the driver error without a
\* request to the array; with all four set it sends the one pool lookup.
C26_SetupCheckFirst ==
    /\ []((dop = "check_for_setup_error" /\ AnyRequiredUnset) =>
             /\ dpc = "idle" /\ rpc = "idle"
             /\ calls = <<>>
             /\ dret.op = "check_for_setup_error"
             /\ dret.raised = "VolumeDriverException")
    /\ []((dop = "check_for_setup_error" /\ ~AnyRequiredUnset) =>
             calls = <<[kind |-> "get_pool", name |-> conf.qsan_pool_name]>>)
    /\ [][ (dpc = "idle" /\ rpc = "idle" /\ dop' = "check_for_setup_error"
            /\ AnyRequiredUnset) => UNCHANGED cvars ]_vars

\* The check failed on the unset password after an earlier operation had
\* talked to the array.
C26_Witness ==
    /\ Finished("check_for_setup_error")
    /\ conf.qsan_password = <<>>
    /\ calls = <<>>
    /\ dret.raised = "VolumeDriverException"
    /\ trace # <<>>

\* C24: get_volume_stats sends a pool request exactly when refresh is asked
\* for or no statistics are stored; otherwise it sends nothing and returns
\* the stored statistics, which stay as they are.
C24_RefreshOrReuse ==
    /\ [](dop = "get_volume_stats" =>
             /\ Len(calls) <= 1
             /\ calls # <<>> => calls[1] = [kind |-> "get_pool",
                                            name |-> conf.qsan_pool_name])
    /\ [][ (dpc = "idle" /\ rpc = "idle" /\ dop' = "get_volume_stats") =>
               IF args'.refresh \/ stats = NoStats
               THEN /\ Len(calls') = 1
                    /\ rpc' = "loop"
                    /\ request' = calls'[1]
               ELSE /\ calls' = <<>>
                    /\ UNCHANGED <<cvars, stats>>
                    /\ dpc' = "idle"
                    /\ dret'.raised = None
                    /\ dret'.value = stats ]_vars

\* Stored statistics returned without a request.
C24_Witness ==
    /\ Finished("get_volume_stats")
    /\ calls = <<>>
    /\ args.refresh = FALSE
    /\ dret.value = stats
    /\ stats.free_capacity_gb = 3

(***************************************************************************)
(* Properties of the provisioning operations, under SpecProvision.         *)
(***************************************************************************)
\* 2^30 bytes, counted in blocks of 512 bytes.
BinaryGigabyte == (2 ^ 30) \div 512

\* C27: create_volume sends one create request for the configured pool and
\* the name volume-<id>, whose size is the volume's size in gigabytes times
\* 2^30 bytes and whose thin_provision is the configured flag; extend_volume
\* sends the new size times 2^30 bytes.
C27_SizeConversion ==
    /\ dop = "create_volume" =>
          calls = <<[kind |-> "create_volume",
                     pool |-> conf.qsan_pool_name,
                     name |-> <<"volume", volume.id>>,
                     size |-> volume.size * BinaryGigabyte,
                     thin_provision |-> conf.qsan_thin_provision]>>
    /\ dop = "extend_volume" =>
          calls = <<[kind |-> "extend_volume",
                     name |-> <<"volume", volume.id>>,
                     size |-> args.new_size * BinaryGigabyte]>>

\* A thick volume of the largest size was created.
C27_Witness ==
    /\ Finished("create_volume")
    /\ dret.raised = None
    /\ volume.size = MaxSize
    /\ conf.qsan_thin_provision = FALSE
    /\ request.size = MaxSize * 2097152
    /\ <<"volume", "v1">> \in array.volumes

IssuesExtend ==
    dop = "create_cloned_volume" /\ Len(calls) = 1 /\ Len(calls') = 2

\* C25: create_cloned_volume sends one clone request and then, only after
\* that request was answered, one extend request for the new volume to the
\* requested size exactly when the requested size is larger than the source
\* size; otherwise, and when the clone failed, it sends no extend request.
C25_CloneThenExtend ==
    /\ [](dop = "create_cloned_volume" =>
             /\ IsPrefix(Kinds(calls), <<"clone_volume", "extend_volume">>)
             /\ calls # <<>>
             /\ calls[1] = [kind |-> "clone_volume",
                            src |-> <<"volume", args.src_vref.id>>,
                            name |-> <<"volume", volume.id>>]
             /\ Len(calls) = 2 =>
                   /\ volume.size > args.src_vref.size
                   /\ calls[2] = [kind |-> "extend_volume",
                                  name |-> <<"volume", volume.id>>,
                                  size |-> volume.size * BinaryGigabyte])
    /\ []((Finished("create_cloned_volume") /\ dret.raised = None) =>
             (Len(calls) = 2 <=> volume.size > args.src_vref.size))
    /\ []((Finished("create_cloned_volume") /\ Len(calls) = 1
           /\ volume.size > args.src_vref.size) =>
             /\ result = "QSANApiException"
             /\ dret.raised = "VolumeBackendAPIException")
    /\ [][ IssuesExtend =>
               /\ rpc = "done"
               /\ result \in {"parsed", "empty"}
               /\ request = calls[1] ]_vars

\* A clone larger than its source was made and extended.
C25_Witness ==
    /\ Finished("create_cloned_volume")
    /\ dret.raised = None
    /\ volume.size = MaxSize
    /\ args.src_vref.size = 1
    /\ Kinds(calls) = <<"clone_volume", "extend_volume">>
    /\ <<"volume", "v1">> \in array.volumes

(***************************************************************************)
(* Properties of the mutating operations, under SpecMutating.              *)
(***************************************************************************)
MutatingOps ==
    {"create_volume", "delete_volume", "extend_volume", "create_snapshot",
     "delete_snapshot", "create_volume_from_snapshot", "create_cloned_volume",
     "create_export", "remove_export"}
ClientCallFailed ==
    /\ calls # <<>>
    /\ request = Last(calls)
    /\ result = "QSANApiException"
    /\ request.kind \notin LookupKinds

Running == rpc \in {"loop", "sleep"}

\* C31: every call of _request ends, whatever the transport does, and at no
\* point of a call have more HTTP attempts been made than retry_count.
C31_RetryLoopTerminates ==
    /\ [](Len(trace) <= retry_count)
    /\ [](Running => (attempt <= retry_count /\ Len(trace) <= attempt + 1))
    /\ [](rpc = "sleep" => attempt + 1 < retry_count)
    /\ Running ~> (rpc = "done")

\* A call that failed at every one of its attempts has ended.
C31_Witness ==
    /\ rpc = "done"
    /\ retry_count = MaxRetry
    /\ Len(trace) = MaxRetry
    /\ result = "QSANApiException"

(***************************************************************************)
(* Frame of a failed login, under SpecClient.                              *)
(***************************************************************************)
FailedLoginStep ==
    /\ rpc = "idle"
    /\ rpc' = "idle"
    /\ ret'.op = "login"
    /\ ret'.outcome = "QSANApiException"

\* C36: a login that fails leaves the stored token as it was (absent on a
\* fresh client, never a new one); of the client's state it changes nothing
\* but the session, which exists afterwards.
C36_FailedLoginKeepsToken ==
    [][FailedLoginStep =>
          /\ session_token' = session_token
          /\ session' = "Session"
          /\ UNCHANGED <<retry_count, array, request, attempt, trace, sleeps,
                         auth, result, response>>]_vars

\* A login failed on a client that held a token from an earlier login.
C36_Witness ==
    /\ ret.op = "login"
    /\ ret.outcome = "QSANApiException"
    /\ session_token \in Tokens
    /\ session = "Session"

(***************************************************************************)
(* What a returning _request has done, under SpecClient.                   *)
(***************************************************************************)
\* C40: a call of _request that returns a result (parsed or empty) has made
\* at least one HTTP attempt, and its last attempt was answered successfully,
\* for every retry_count the constructor accepts.
C40_SuccessNeedsExchange ==
    (rpc = "done" /\ result \in {"parsed", "empty"})
        => (trace # <<>> /\ Last(trace) \in {"ok_body", "ok_empty"})

(***************************************************************************)
(* A failed refresh of the statistics, under SpecSetup.                    *)
(***************************************************************************)
ZeroCapacity(st) ==
    /\ st # NoStats
    /\ st.total_capacity_gb = 0
    /\ st.free_capacity_gb = 0

PoolRequestFailed ==
    /\ dop = "get_volume_stats"
    /\ dpc = "get_pool_stats"
    /\ rpc = "done"
    /\ result = "QSANApiException"

\* C37: when the pool request of a refresh fails with the API error,
\* get_volume_stats raises nothing and returns a record with both capacities
\* 0, which becomes the stored record; a later call without refresh returns
\* that stored record and sends nothing.
C37_StatsFailureZeroes ==
    /\ [][(PoolRequestFailed /\ dpc' = "idle") =>
              /\ dret'.op = "get_volume_stats"
              /\ dret'.raised = None
              /\ ZeroCapacity(dret'.value)
              /\ stats' = dret'.value]_vars
    /\ [][(dpc = "idle" /\ rpc = "idle" /\ ZeroCapacity(stats)
              /\ dop' = "get_volume_stats" /\ ~args'.refresh) =>
              /\ calls' = <<>>
              /\ UNCHANGED <<cvars, stats>>
              /\ dpc' = "idle"
              /\ dret'.raised = None
              /\ dret'.value = stats]_vars

\* The zero-capacity record of a failed refresh is returned by a later call
\* without refresh that sent nothing.
C37_Witness ==
    /\ Finished("get_volume_stats")
    /\ calls = <<>>
    /\ ~args.refresh
    /\ ZeroCapacity(stats)
    /\ dret.value = stats
    /\ dret.raised = None
    /\ result = "QSANApiException"
    /\ request.kind = "get_pool"

(***************************************************************************)
(* initialize_connection without a target, under SpecConnection.           *)
(***************************************************************************)
LookupAnswered(op) ==
    /\ dop = op
    /\ dpc = "get_iscsi_target_by_name"
    /\ rpc = "done"

\* C39: when the target lookup of initialize_connection gives no target (the
\* array has none of that name, or the lookup failed), no ACL-add request is
\* sent and the array is left as it is; if the volume has a
\* provider_location the descriptor decoded from it is returned without
\* error.
C39_NoTargetNoAcl ==
    /\ [][(LookupAnswered("initialize_connection") /\ ~TargetFound) =>
              /\ dpc' = "idle"
              /\ calls' = calls
              /\ array' = array
              /\ Truthy(volume.provider_location) =>
                    /\ dret'.raised = None
                    /\ dret'.value.driver_volume_type = "iscsi"
                    /\ dret'.value.data = GetIscsiProperties(volume)]_vars
    /\ [](Finished("initialize_connection") /\ target_info = NoTarget
             => \A i \in 1..Len(calls) :
                    calls[i].kind # "add_initiator_to_target")

\* The lookup failed although the array has the target; the descriptor was
\* returned after that one request.
C39_Witness ==
    /\ Finished("initialize_connection")
    /\ HasInitiator(args.connector)
    /\ Kinds(calls) = <<"get_iscsi_targets">>
    /\ result = "QSANApiException"
    /\ GetTargetName(volume) \in array.targets
    /\ dret.raised = None
    /\ dret.value.data.target_lun = 1

\* C34: for a volume without a provider_location, initialize_connection
\* raises the backend-API failure and has sent no ACL-add request.
C34_DecodeBeforeMutate ==
    (Finished("initialize_connection") /\ ~Truthy(volume.provider_location)) =>
        /\ dret.raised = "VolumeBackendAPIException"
        /\ \A i \in 1..Len(calls) : calls[i].kind # "add_initiator_to_target"

(***************************************************************************)
(* What a delete leaves on the array, under SpecLifecycle.                 *)
(***************************************************************************)
\* C32: after delete_volume has returned without error the array holds no
\* volume named volume-<id>, and after delete_snapshot has returned without
\* error it holds no snapshot named snapshot-<id> of that volume, whatever
\* the lookup was answered with (a record, not found, or a failure).
C32_DeletePostcondition ==
    /\ (Finished("delete_volume") /\ dret.raised = None)
          => GetVolumeName(volume) \notin array.volumes
    /\ (Finished("delete_snapshot") /\ dret.raised = None)
          => <<GetVolumeName(volume), GetSnapshotName(NewSnapshot)>>
                \notin array.snapshots

(***************************************************************************)
(* What remove_export leaves on the array, under Spec.                     *)
(***************************************************************************)
\* C33: after remove_export has returned without error the array holds no
\* target named target-<volume id>, whatever the target lookup was answered
\* with (a list, an empty list, or a failure).
C33_TeardownPostcondition ==
    (Finished("remove_export") /\ dret.raised = None)
        => GetTargetName(volume) \notin array.targets

(***************************************************************************)
(* create_volume and lost responses: do_setup, then one create_volume call *)
(* for a volume the array does not hold, over a network that may fail and  *)
(* may lose the response of a request the array has processed.             *)
(***************************************************************************)
CreateFreshInit ==
    /\ MutatingInit
    /\ GetVolumeName(NewVolume) \notin array.volumes

CreateFreshNext ==
    \/ RequestAttemptOk /\ UNCHANGED <<conf, volume, kvars, dvars>>
    \/ RequestAttemptFail /\ UNCHANGED <<conf, volume, kvars, dvars>>
    \/ RequestSleep /\ UNCHANGED <<conf, volume, kvars, dvars>>
    \/ DoSetupOk /\ UNCHANGED <<kvars, stats, args>>
    \/ DoSetupFail /\ UNCHANGED <<kvars, stats, args>>
    \/ FirstCall /\ CreateVolume /\ UNCHANGED kvars
    \/ CreateVolumeDone /\ UNCHANGED kvars
    \/ CreateVolumeFailed /\ UNCHANGED kvars

SpecCreateFresh == CreateFreshInit /\ [][CreateFreshNext]_vars

\* C38: when the array holds no volume named volume-<id> before the call
\* and create_volume raises the backend-API failure, the array holds no
\* volume of that name afterwards.
C38_CreateAtomic ==
    (Finished("create_volume") /\ dret.raised = "VolumeBackendAPIException")
        => GetVolumeName(volume) \notin array.volumes

(***************************************************************************)
(* The authentication string, under SpecCodec.                             *)
(***************************************************************************)
\* C35: for every configured non-empty CHAP username and password, decoding
\* the provider_auth that create_export built gives auth_method CHAP and the
\* configured username and password; without a provider_auth the descriptor
\* carries no auth field.
C35_AuthRoundTrip ==
    (cpc = "decoded" /\ properties.raised = None) =>
        /\ (/\ conf.qsan_chap_enabled
            /\ Truthy(conf.qsan_chap_username)
            /\ Truthy(conf.qsan_chap_password)) =>
              /\ properties.auth_method = <<"C", "H", "A", "P">>
              /\ properties.auth_username = conf.qsan_chap_username
              /\ properties.auth_password = conf.qsan_chap_password
        /\ volume.provider_auth = NoneS =>
              /\ properties.auth_method = NoneS
              /\ properties.auth_username = NoneS
              /\ properties.auth_password = NoneS

====
